---- MODULE Spec2Model ----
(***************************************************************************)
(* Model of the aggregation stage of the fraud analysis application:      *)
(* AggregationEngine.aggregate_by_account, its helpers (_fast_mode,        *)
(* _concat_unique, calculate_risk_score) and sort_results.                 *)
(*                                                                         *)
(* Representation.                                                         *)
(*  - A Python string is a sequence of one-character strings, so that      *)
(*    str.strip() and ';'.join() are computed, not assumed.                *)
(*  - A text cell is a string or NaN (pandas' null marker).                *)
(*  - A numeric cell is <<>> (NaN) or <<v>> with v an integer number of    *)
(*    rupees.                                                              *)
(*  - risk_score is kept in hundredths (round(x, 2) * 100), so 10000 is    *)
(*    the score 100.00.                                                    *)
(*  - A dataframe is a sequence of rows over the fixed columns DfColumns.  *)
(***************************************************************************)
EXTENDS Integers, Sequences, FiniteSets, TLC

VARIABLES df, mapping, pc, aggregated, sorted_accounts

\* ColumnDetector: normalize_header's argument and successive results;
\* detect_columns' argument, loop position and locals; the list returned by
\* validate_required_columns.
VARIABLES header, normalized, headers, idx, detected, assigned_types,
          confidence_scores, ambiguous_mappings, missing

\* DataProcessor: parse_amount's argument and outcome; the dataframe handed
\* to clean_dataframe.
VARIABLES amount_str, parsed, raw_df

\* render_processing_page: the result of validate_dataframe and the results
\* kept in st.session_state.
VARIABLES validation_result, session_state

\* SessionManager: _sessions, _session_data, the clock read by datetime.now(),
\* the ids uuid4 has issued, and the outcome of the last call.
VARIABLES sessions, session_data, now, issued, outcome

\* The series handed to get_most_common and _fast_mode, and what each returned.
VARIABLES mode_series, most_common, fast

\* Two datasets processed in turn by the cached services: the calls in
\* progress and the class attribute COLUMN_VARIANTS they read.
VARIABLES jobs, lexicon

detectorVars == <<header, normalized, headers, idx, detected, assigned_types,
                  confidence_scores, ambiguous_mappings, missing>>

processorVars == <<amount_str, parsed, raw_df>>

validationVars == <<validation_result, session_state>>

sessionVars == <<sessions, session_data, now, issued, outcome>>

modeVars == <<mode_series, most_common, fast>>

jobVars == <<jobs, lexicon>>

appVars == <<validationVars, sessionVars, modeVars, jobVars>>

vars == <<df, mapping, pc, aggregated, sorted_accounts, detectorVars, processorVars, appVars>>

\* The detector and the processor have not been called.
DetectorIdle ==
    /\ header = <<>>
    /\ normalized = <<>>
    /\ headers = <<>>
    /\ idx = 0
    /\ detected = <<>>
    /\ assigned_types = <<>>
    /\ confidence_scores = <<>>
    /\ ambiguous_mappings = <<>>
    /\ missing = <<>>

ProcessorIdle ==
    /\ amount_str = <<>>
    /\ parsed = <<>>
    /\ raw_df = <<>>

\* Nothing validated or stored, no session, no series, no call in progress.
ValidationIdle ==
    /\ validation_result = <<>>
    /\ session_state = <<>>

SessionIdle ==
    /\ sessions = <<>>
    /\ session_data = <<>>
    /\ now = 0
    /\ issued = {}
    /\ outcome = <<>>

ModeIdle ==
    /\ mode_series = <<>>
    /\ most_common = <<>>
    /\ fast = <<>>

JobsIdle ==
    /\ jobs = <<>>
    /\ lexicon = <<>>

AppIdle == ValidationIdle /\ SessionIdle /\ ModeIdle /\ JobsIdle

(***************************************************************************)
(* Bounds of the model.                                                    *)
(***************************************************************************)
MaxSumRows == 2
MaxAckRows == 3
MaxModeRows == 3
MaxAccounts == 3
MaxHeaderLen == 4
MaxHeaders == 3
MaxAmountLen == 4
MaxCleanRows == 2
MaxProcessRows == 2
MaxSessions == 2
MaxClock == 31
MaxSeriesLen == 3
MaxJobRows == 2

(***************************************************************************)
(* Strings.                                                                *)
(***************************************************************************)
\* The null cells of pandas: float nan, pd.NA and None.
NaN == <<"NaN">>
NA == <<"NA">>
None == <<"None">>
Blank == <<" ">>
Empty == <<>>

\* Characters of the model in code point order (the order Python compares by).
Alphabet == <<" ", "1", "2", ";", "<", ">", "A", "K", "N", "X", "Y">>

Ord(c) == CHOOSE i \in 1..Len(Alphabet) : Alphabet[i] = c

\* str.isspace() on the characters of the model
IsSpace(c) == c \in {" ", "\t"}

RECURSIVE LStrip(_)
LStrip(s) ==
    IF s = <<>> THEN <<>>
    ELSE IF IsSpace(Head(s)) THEN LStrip(Tail(s)) ELSE s

RECURSIVE RStrip(_)
RStrip(s) ==
    IF s = <<>> THEN <<>>
    ELSE IF IsSpace(s[Len(s)]) THEN RStrip(SubSeq(s, 1, Len(s) - 1)) ELSE s

\* str.strip()
Strip(s) == RStrip(LStrip(s))

\* Python's s < t on strings
RECURSIVE StrLess(_, _)
StrLess(s, t) ==
    IF t = <<>> THEN FALSE
    ELSE IF s = <<>> THEN TRUE
    ELSE IF Head(s) = Head(t) THEN StrLess(Tail(s), Tail(t))
    ELSE Ord(Head(s)) < Ord(Head(t))

\* sep.join(parts)
RECURSIVE Join(_, _)
Join(parts, sep) ==
    IF parts = <<>> THEN <<>>
    ELSE IF Len(parts) = 1 THEN parts[1]
    ELSE parts[1] \o sep \o Join(Tail(parts), sep)

\* The elements of a sequence
Range(s) == {s[i] : i \in 1..Len(s)}

(***************************************************************************)
(* Series helpers (pandas).                                                *)
(***************************************************************************)
\* Series.notna() on one cell
NotNa(cell) == cell \notin {NaN, NA, None}

\* notna() & (astype(str).str.strip() != '') on one text cell
NonBlank(cell) == NotNa(cell) /\ Strip(cell) # <<>>

\* df[col] as a sequence of cells
Column(frame, col) == [i \in 1..Len(frame) |-> frame[i][col]]

\* Series.unique(): distinct values in order of first occurrence
RECURSIVE Unique(_)
Unique(s) ==
    IF s = <<>> THEN <<>>
    ELSE LET init == Unique(SubSeq(s, 1, Len(s) - 1))
             last == s[Len(s)]
         IN IF \E i \in 1..Len(init) : init[i] = last THEN init
            ELSE Append(init, last)

\* number of occurrences of v in s
Count(s, v) == Cardinality({i \in 1..Len(s) : s[i] = v})

\* 'sum' aggregation of a numeric column (skipna: NaN cells contribute 0)
RECURSIVE SumCells(_)
SumCells(s) ==
    IF s = <<>> THEN 0
    ELSE (IF Head(s) = <<>> THEN 0 ELSE Head(s)[1]) + SumCells(Tail(s))

(***************************************************************************)
(* Dataframes and column mappings.                                         *)
(***************************************************************************)
\* The columns of the uploaded dataframe: three text columns, two numeric.
DfColumns == {"Account", "Ack", "Cat", "Amount", "Disputed"}

\* ColumnMapping field left at None
NoCol == "None"

\* A header the mapping may name although the dataframe has no such column
AbsentCol == "Absent"

ModeFields == <<"bank_name", "ifsc_code", "address", "district", "state">>

\* `col and col in df.columns`
Mapped(col) == col # NoCol /\ col \in DfColumns

(***************************************************************************)
(* AggregationEngine.calculate_risk_score                                  *)
(***************************************************************************)
TransactionWeightPct == 40
AmountWeightPct == 60
TxnCap == 100
AmountCap == 10000000

Min(a, b) == IF a < b THEN a ELSE b

\* round(num / den) to the nearest integer, ties to even (Python's round)
\* The exact quotient is rounded; on a tie the float the code rounds may lie on
\* either side of it.  No total of the amounts below falls on a tie.
RoundHalfEven(num, den) ==
    LET q == num \div den
        r == num % den
    IN IF 2 * r < den THEN q
       ELSE IF 2 * r > den THEN q + 1
       ELSE IF q % 2 = 0 THEN q ELSE q + 1

\* the two weights exchanged
calculate_risk_score_Swapped(transaction_count, total_amount) ==
    LET den == AmountCap \div 1000
        transaction_score_num == (Min(transaction_count, TxnCap) * 100 * den) \div TxnCap
        amount_factor == (TransactionWeightPct * 100 * den) \div AmountCap
    IN RoundHalfEven(AmountWeightPct * transaction_score_num
                       + amount_factor * Min(total_amount, AmountCap), den)

\* The score in hundredths.  transaction_score = min(n / 100, 1) * 100 and
\* amount_score = min(a / 10_000_000, 1) * 100; the weighted sum is taken over
\* the common denominator AmountCap / 1000 to stay inside 32-bit integers.
calculate_risk_score(transaction_count, total_amount) ==
    LET den == AmountCap \div 1000
        transaction_score_num == (Min(transaction_count, TxnCap) * 100 * den) \div TxnCap
        amount_factor == (AmountWeightPct * 100 * den) \div AmountCap
    IN RoundHalfEven(TransactionWeightPct * transaction_score_num
                       + amount_factor * Min(total_amount, AmountCap), den)

(***************************************************************************)
(* AggregationEngine._fast_mode and _concat_unique                         *)
(***************************************************************************)
\* the first non-blank value instead of the most frequent one
fast_mode_First(series) ==
    LET non_empty == SelectSeq(series, NonBlank)
    IN IF non_empty = <<>> THEN {Empty} ELSE {non_empty[1]}

\* The values _fast_mode can return for a group's cells.  value_counts()
\* orders by count, descending; counts.index[0] is a value of the highest
\* count.  Among several values of the same highest count the order is that of
\* an unstable sort (sort_values, kind='quicksort'), so each of them is a
\* possible outcome.  '' when no cell is non-null and non-blank.
fast_mode(series) ==
    LET non_empty == SelectSeq(series, NonBlank)
        values == {non_empty[i] : i \in 1..Len(non_empty)}
    IN IF non_empty = <<>> THEN {Empty}
       ELSE {v \in values : \A w \in values : Count(non_empty, w) <= Count(non_empty, v)}

\* ';'.join of the distinct non-null, non-blank values in order of first
\* occurrence.  The blank test strips; the values joined are not stripped.
concat_unique(series) ==
    Join(Unique(SelectSeq(series, NonBlank)), <<";">>)

(***************************************************************************)
(* AggregationEngine.aggregate_by_account                                  *)
(***************************************************************************)
\* the blank test left out
FilterAccounts_NotNaOnly(frame, account_col) ==
    SelectSeq(frame, LAMBDA row : NotNa(row[account_col]))

\* df[df[account_col].notna() & (df[account_col].astype(str).str.strip() != '')]
FilterAccounts(frame, account_col) ==
    SelectSeq(frame, LAMBDA row : NonBlank(row[account_col]))

\* keys in ascending order (groupby sorts its keys)
RECURSIVE SortKeys(_)
SortKeys(S) ==
    IF S = {} THEN <<>>
    ELSE LET least == CHOOSE k \in S : \A o \in S \ {k} : StrLess(k, o)
         IN <<least>> \o SortKeys(S \ {least})

\* one key per row instead of one per distinct value
GroupKeys_PerRow(kept, account_col) ==
    [i \in 1..Len(kept) |-> kept[i][account_col]]

\* agg_result.index: one key per distinct value of the account column
GroupKeys(kept, account_col) ==
    SortKeys({kept[i][account_col] : i \in 1..Len(kept)})

\* the rows of one group
Group(kept, account_col, key) ==
    SelectSeq(kept, LAMBDA row : row[account_col] = key)

\* agg_dict: a dict, so a later assignment to the same column replaces the
\* earlier one
AggDict(m) ==
    LET d0 == [c \in {m.bank_account_number} |-> "count"]
        d1 == IF Mapped(m.amount)
              THEN [c \in DOMAIN d0 \cup {m.amount} |->
                       IF c = m.amount THEN "sum" ELSE d0[c]]
              ELSE d0
    IN IF Mapped(m.disputed_amount)
       THEN [c \in DOMAIN d1 \cup {m.disputed_amount} |->
                IF c = m.disputed_amount THEN "sum" ELSE d1[c]]
       ELSE d1

\* col_rename: a dict as well
ColRename(m) ==
    LET r0 == [c \in {} |-> ""]
        r1 == IF Mapped(m.amount)
              THEN [c \in {m.amount} |-> "total_amount"]
              ELSE r0
    IN IF Mapped(m.disputed_amount)
       THEN [c \in DOMAIN r1 \cup {m.disputed_amount} |->
                IF c = m.disputed_amount THEN "total_disputed" ELSE r1[c]]
       ELSE r1

\* 'nunique' instead of 'count'
CountCells_Unique(cells) ==
    Cardinality({cells[i] : i \in {j \in 1..Len(cells) : NotNa(cells[j])}})

\* 'count' counts the non-null cells
CountCells(cells) == Cardinality({i \in 1..Len(cells) : NotNa(cells[i])})

ApplyAgg(how, cells) ==
    IF how = "count" THEN CountCells(cells) ELSE SumCells(cells)

\* agg_result.loc[account_number] after the two renamings: the first column
\* (the account column, first key of agg_dict) becomes 'total_transactions',
\* the others are renamed through col_rename
AggRow(g, m) ==
    LET d == AggDict(m)
        rn == ColRename(m)
        others == DOMAIN d \ {m.bank_account_number}
        NameOf(c) == IF c \in DOMAIN rn THEN rn[c] ELSE c
        names == {"total_transactions"} \cup {NameOf(c) : c \in others}
    IN [n \in names |->
          IF n = "total_transactions"
          THEN ApplyAgg(d[m.bank_account_number], Column(g, m.bank_account_number))
          ELSE LET c == CHOOSE c \in others : NameOf(c) = n
               IN ApplyAgg(d[c], Column(g, c))]

\* row.get(name, 0)
RowGet(row, name) == IF name \in DOMAIN row THEN row[name] ELSE 0

\* mode_results.get(name, pd.Series()).get(account_number, ''), then
\* `str(x) if x else ''`
ModeResult(g, m, name) ==
    IF Mapped(m[name]) THEN fast_mode(Column(g, m[name])) ELSE {Empty}

\* ack_result.get(account_number, ''), then `str(x) if x else ''`
AckResult(g, m) ==
    IF Mapped(m.acknowledgement_number)
    THEN concat_unique(Column(g, m.acknowledgement_number))
    ELSE Empty

\* The AggregatedAccount records the loop over agg_result.index can build for
\* one group (several only where a mode field has tied values).
AccountRecords(g, m, key) ==
    LET row == AggRow(g, m)
        total_transactions == RowGet(row, "total_transactions")
        total_amount == RowGet(row, "total_amount")
        total_disputed == RowGet(row, "total_disputed")
    IN {[account_number |-> key,
         bank_name |-> b,
         ifsc_code |-> i,
         address |-> a,
         district |-> d,
         state |-> s,
         total_transactions |-> total_transactions,
         acknowledgement_numbers |-> AckResult(g, m),
         total_amount |-> total_amount,
         total_disputed_amount |-> total_disputed,
         risk_score |-> calculate_risk_score(total_transactions, total_amount)] :
           b \in ModeResult(g, m, "bank_name"),
           i \in ModeResult(g, m, "ifsc_code"),
           a \in ModeResult(g, m, "address"),
           d \in ModeResult(g, m, "district"),
           s \in ModeResult(g, m, "state")}

RECURSIVE AccountLists(_, _, _)
AccountLists(kept, m, keys) ==
    IF keys = <<>> THEN {<<>>}
    ELSE {<<r>> \o rest :
            r \in AccountRecords(Group(kept, m.bank_account_number, Head(keys)), m, Head(keys)),
            rest \in AccountLists(kept, m, Tail(keys))}

\* The lists aggregate_by_account(df, mapping) can return.
aggregate_by_account(frame, m) ==
    IF frame = <<>> THEN {<<>>}
    ELSE IF ~Mapped(m.bank_account_number) THEN {<<>>}
    ELSE LET kept == FilterAccounts(frame, m.bank_account_number)
         IN IF kept = <<>> THEN {<<>>}
            ELSE AccountLists(kept, m, GroupKeys(kept, m.bank_account_number))

(***************************************************************************)
(* AggregationEngine.sort_results                                          *)
(***************************************************************************)
\* the secondary key left out
KeyLess_AmountOnly(x, y) == -x.total_amount < -y.total_amount

\* key(x) < key(y) for key = (-total_amount, -total_transactions)
KeyLess(x, y) ==
    \/ -x.total_amount < -y.total_amount
    \/ /\ -x.total_amount = -y.total_amount
       /\ -x.total_transactions < -y.total_transactions

\* x goes before the elements of equal key (an unstable sort)
RECURSIVE InsertSorted_BeforeEqual(_, _)
InsertSorted_BeforeEqual(sorted, x) ==
    IF sorted = <<>> THEN <<x>>
    ELSE IF ~KeyLess(Head(sorted), x) THEN <<x>> \o sorted
    ELSE <<Head(sorted)>> \o InsertSorted_BeforeEqual(Tail(sorted), x)

\* x goes after every element whose key is not greater than its own
RECURSIVE InsertSorted(_, _)
InsertSorted(sorted, x) ==
    IF sorted = <<>> THEN <<x>>
    ELSE IF KeyLess(x, Head(sorted)) THEN <<x>> \o sorted
    ELSE <<Head(sorted)>> \o InsertSorted(Tail(sorted), x)

\* sorted(accounts, key=...): a stable sort into a new list
RECURSIVE sort_results(_)
sort_results(accounts) ==
    IF accounts = <<>> THEN <<>>
    ELSE InsertSorted(sort_results(SubSeq(accounts, 1, Len(accounts) - 1)),
                      accounts[Len(accounts)])

(***************************************************************************)
(* Inputs.  The dataframes are drawn from three families, each varying the *)
(* columns one part of the aggregation reads; the other columns are null.  *)
(***************************************************************************)
A1 == <<"A", "1">>
A2 == <<"A", "2">>
K1 == <<"K", "1">>
K2 == <<"K", "2">>
SpK1 == <<" ", "K", "1">>
CatX == <<"X">>
CatY == <<"Y">>

NoAmount == <<>>

SumRows ==
    [Account : {NaN, Blank, A1, A2},
     Amount : {NoAmount, <<-6000000>>, <<1500>>, <<6000000>>},
     Disputed : {NoAmount, <<700>>},
     Ack : {NaN},
     Cat : {NaN}]

AckRows ==
    [Account : {NaN, A1, A2},
     Amount : {<<1500>>},
     Disputed : {NoAmount},
     Ack : {NaN, Blank, K1, K2, SpK1},
     Cat : {NaN}]

ModeRows ==
    [Account : {Blank, A1, A2},
     Amount : {<<1500>>},
     Disputed : {NoAmount},
     Ack : {NaN},
     Cat : {NaN, Blank, CatX, CatY}]

\* sequences over S of length 0..n
SeqsUpTo(S, n) == UNION {[1..k -> S] : k \in 0..n}

NoModes == [f \in {ModeFields[i] : i \in 1..Len(ModeFields)} |-> NoCol]

MakeMapping(account, amount, disputed, ack, modes) ==
    [bank_account_number |-> account,
     amount |-> amount,
     disputed_amount |-> disputed,
     acknowledgement_number |-> ack,
     bank_name |-> modes["bank_name"],
     ifsc_code |-> modes["ifsc_code"],
     address |-> modes["address"],
     district |-> modes["district"],
     state |-> modes["state"]]

\* The account column is a text column and the amount fields name numeric
\* columns, a header the dataframe does not have, or nothing; the form lets
\* two fields name the same column.
SumMappings ==
    {MakeMapping(a, x, d, NoCol, NoModes) :
        a \in {"Account"}, x \in {"Amount", NoCol}, d \in {"Disputed", NoCol, "Amount"}}
    \cup {MakeMapping(a, "Amount", AbsentCol, NoCol, NoModes) : a \in {NoCol, AbsentCol, "Account"}}

AckMappings ==
    {MakeMapping("Account", "Amount", NoCol, k, NoModes) : k \in {"Ack", NoCol}}

ModeMappings ==
    {MakeMapping("Account", "Amount", NoCol, NoCol,
                 [f \in DOMAIN NoModes |-> IF f \in fs THEN "Cat" ELSE NoCol]) :
        fs \in {{ModeFields[i]} : i \in 1..Len(ModeFields)} \cup {{"bank_name", "state"}}}

Loaded(frame, m) ==
    /\ df = frame
    /\ mapping = m
    /\ pc = "loaded"
    /\ aggregated = <<>>
    /\ sorted_accounts = <<>>
    /\ DetectorIdle
    /\ ProcessorIdle
    /\ AppIdle

Init ==
    \/ \E frame \in SeqsUpTo(SumRows, MaxSumRows), m \in SumMappings : Loaded(frame, m)
    \/ \E frame \in SeqsUpTo(AckRows, MaxAckRows), m \in AckMappings : Loaded(frame, m)
    \/ \E frame \in SeqsUpTo(ModeRows, MaxModeRows), m \in ModeMappings : Loaded(frame, m)

(***************************************************************************)
(* Operations.                                                             *)
(***************************************************************************)
\* aggregated = aggregation_engine.aggregate_by_account(cleaned_df, mapping)
Aggregate ==
    /\ pc = "loaded"
    /\ aggregated' \in aggregate_by_account(df, mapping)
    /\ pc' = "aggregated"
    /\ UNCHANGED <<df, mapping, sorted_accounts, detectorVars, processorVars, appVars>>

\* sorted_accounts = aggregation_engine.sort_results(aggregated)
SortResults ==
    /\ pc = "aggregated"
    /\ sorted_accounts' = sort_results(aggregated)
    /\ pc' = "sorted"
    /\ UNCHANGED <<df, mapping, aggregated, detectorVars, processorVars, appVars>>

Next == Aggregate \/ SortResults

Spec == Init /\ [][Next]_vars

(***************************************************************************)
(* sort_results called on any list of accounts.                            *)
(***************************************************************************)
SortPool ==
    {[account_number |-> n,
      bank_name |-> Empty,
      ifsc_code |-> Empty,
      address |-> Empty,
      district |-> Empty,
      state |-> Empty,
      total_transactions |-> t,
      acknowledgement_numbers |-> Empty,
      total_amount |-> x,
      total_disputed_amount |-> 0,
      risk_score |-> calculate_risk_score(t, x)] :
        n \in {A1, A2}, t \in {1, 2}, x \in {-1500, 1500, 3000}}

InitSort ==
    /\ df = <<>>
    /\ mapping = MakeMapping(NoCol, NoCol, NoCol, NoCol, NoModes)
    /\ pc = "aggregated"
    /\ aggregated \in SeqsUpTo(SortPool, MaxAccounts)
    /\ sorted_accounts = <<>>
    /\ DetectorIdle
    /\ ProcessorIdle
    /\ AppIdle

NextSort == SortResults

SpecSort == InitSort /\ [][NextSort]_vars

(***************************************************************************)
(* ColumnDetector.  Characters and str methods used by the detector.       *)
(***************************************************************************)
UpperCase == <<"A", "B", "C", "D", "E", "F", "G", "H", "I", "J", "K", "L", "M",
               "N", "O", "P", "Q", "R", "S", "T", "U", "V", "W", "X", "Y", "Z">>

LowerCase == <<"a", "b", "c", "d", "e", "f", "g", "h", "i", "j", "k", "l", "m",
               "n", "o", "p", "q", "r", "s", "t", "u", "v", "w", "x", "y", "z">>

Digits == <<"0", "1", "2", "3", "4", "5", "6", "7", "8", "9">>

\* The characters of headers and variants in code point order.
CodePoints == <<"\t", " ", "#", "-", ".", "/">> \o Digits \o UpperCase \o <<"_">> \o LowerCase

CodePoint == [c \in Range(CodePoints) |-> CHOOSE i \in 1..Len(CodePoints) : CodePoints[i] = c]

LowerChar(c) ==
    IF c \in Range(UpperCase)
    THEN LowerCase[CHOOSE i \in 1..Len(UpperCase) : UpperCase[i] = c]
    ELSE c

UpperChar(c) ==
    IF c \in Range(LowerCase)
    THEN UpperCase[CHOOSE i \in 1..Len(LowerCase) : LowerCase[i] = c]
    ELSE c

\* str.lower() and str.upper()
Lower(s) == [i \in 1..Len(s) |-> LowerChar(s[i])]

Upper(s) == [i \in 1..Len(s) |-> UpperChar(s[i])]

\* s.replace(old, new) for one-character old
ReplaceChar(s, old, new) == [i \in 1..Len(s) |-> IF s[i] = old THEN new ELSE s[i]]

\* re.sub(r'[^a-z0-9\s]', '', s)
KeepAlnumSpace(s) ==
    SelectSeq(s, LAMBDA c : c \in Range(LowerCase) \/ c \in Range(Digits) \/ IsSpace(c))

\* Whitespace replaced one character for one, runs not collapsed.
CollapseSpaces_PerChar(s) == [i \in 1..Len(s) |-> IF IsSpace(s[i]) THEN " " ELSE s[i]]

\* re.sub(r'\s+', ' ', s)
RECURSIVE CollapseSpaces(_)
CollapseSpaces(s) ==
    IF s = <<>> THEN <<>>
    ELSE IF IsSpace(Head(s)) THEN <<" ">> \o CollapseSpaces(LStrip(Tail(s)))
    ELSE <<Head(s)>> \o CollapseSpaces(Tail(s))

(***************************************************************************)
(* ColumnDetector.normalize_header                                         *)
(***************************************************************************)
normalize_header(h) ==
    LET stripped == Strip(h)
        lowered == Lower(stripped)
        separated == ReplaceChar(ReplaceChar(ReplaceChar(ReplaceChar(
                         lowered, "_", " "), "-", " "), ".", " "), "/", " ")
        cleaned == KeepAlnumSpace(separated)
        collapsed == CollapseSpaces(cleaned)
    IN Strip(collapsed)

(***************************************************************************)
(* normalize_header called on any header, and again on its own result.     *)
(***************************************************************************)
HeaderChars == {"A", "c", "1", " ", "\t", "_", "-", ".", "/", "#"}

AggregationIdle ==
    /\ df = <<>>
    /\ mapping = MakeMapping(NoCol, NoCol, NoCol, NoCol, NoModes)
    /\ aggregated = <<>>
    /\ sorted_accounts = <<>>

InitNormalize ==
    /\ header \in SeqsUpTo(HeaderChars, MaxHeaderLen)
    /\ normalized = <<>>
    /\ pc = "header"
    /\ headers = <<>>
    /\ idx = 0
    /\ detected = <<>>
    /\ assigned_types = <<>>
    /\ confidence_scores = <<>>
    /\ ambiguous_mappings = <<>>
    /\ missing = <<>>
    /\ AggregationIdle
    /\ ProcessorIdle
    /\ AppIdle

\* normalized_once = detector.normalize_header(header)
NormalizeOnce ==
    /\ pc = "header"
    /\ normalized' = <<normalize_header(header)>>
    /\ pc' = "normalized"
    /\ UNCHANGED <<df, mapping, aggregated, sorted_accounts, header, headers, idx,
                   detected, assigned_types, confidence_scores, ambiguous_mappings,
                   missing, processorVars, appVars>>

\* normalized_twice = detector.normalize_header(normalized_once)
NormalizeTwice ==
    /\ pc = "normalized"
    /\ normalized' = Append(normalized, normalize_header(normalized[1]))
    /\ pc' = "renormalized"
    /\ UNCHANGED <<df, mapping, aggregated, sorted_accounts, header, headers, idx,
                   detected, assigned_types, confidence_scores, ambiguous_mappings,
                   missing, processorVars, appVars>>

NextNormalize == NormalizeOnce \/ NormalizeTwice

SpecNormalize == InitNormalize /\ [][NextNormalize]_vars

(***************************************************************************)
(* ColumnDetector.COLUMN_VARIANTS, in the order of the dict.               *)
(***************************************************************************)
COLUMN_VARIANTS ==
    <<
      [column_type |-> "serial_number", variants |-> <<
          <<"s", "r", " ", "n", "o">>,
          <<"s", "r", ".", "n", "o">>,
          <<"s", "e", "r", "i", "a", "l", " ", "n", "o">>,
          <<"s", ".", "n", "o">>,
          <<"s", "n", "o">>,
          <<"s", "e", "r", "i", "a", "l", " ", "n", "u", "m", "b", "e", "r">>,
          <<"#">>
      >>],
      [column_type |-> "acknowledgement_number", variants |-> <<
          <<"a", "c", "k", "n", "o", "w", "l", "e", "d", "g", "e", "m", "e", "n", "t", " ", "n", "o">>,
          <<"a", "c", "k", " ", "n", "o">>,
          <<"a", "c", "k", "n", "o">>,
          <<"a", "c", "k">>,
          <<"a", "c", "k", "n", "o", "w", "l", "e", "d", "g", "m", "e", "n", "t", " ", "n", "o">>,
          <<"a", "c", "k", "n", "o", "w", "l", "e", "d", "g", "e", "m", "e", "n", "t", " ", "n", "u", "m", "b", "e", "r">>,
          <<"a", "c", "k", "n", "o", "w", "l", "e", "d", "g", "m", "e", "n", "t", " ", "n", "u", "m", "b", "e", "r">>,
          <<"r", "e", "f", " ", "n", "o">>,
          <<"r", "e", "f", "e", "r", "e", "n", "c", "e", " ", "n", "o">>
      >>],
      [column_type |-> "bank_account_number", variants |-> <<
          <<"b", "a", "n", "k", " ", "a", "c", "c", "o", "u", "n", "t", " ", "n", "o">>,
          <<"b", "a", "n", "k", " ", "a", "c", " ", "n", "o">>,
          <<"b", "a", "n", "k", " ", "a", "/", "c", " ", "n", "o">>,
          <<"a", "c", " ", "n", "o">>,
          <<"a", "/", "c", " ", "n", "o">>,
          <<"a", "c", "c", "o", "u", "n", "t", " ", "n", "o">>,
          <<"a", "c", "c", "o", "u", "n", "t", " ", "n", "u", "m", "b", "e", "r">>,
          <<"b", "a", "n", "k", " ", "a", "c", "c", "o", "u", "n", "t", " ", "n", "u", "m", "b", "e", "r">>,
          <<"b", "e", "n", "e", "f", "i", "c", "i", "a", "r", "y", " ", "a", "c", "c", "o", "u", "n", "t">>,
          <<"b", "e", "n", "e", "f", "i", "c", "i", "a", "r", "y", " ", "a", "c">>
      >>],
      [column_type |-> "ifsc_code", variants |-> <<
          <<"i", "f", "s", "c", " ", "c", "o", "d", "e">>,
          <<"i", "f", "s", "c">>,
          <<"b", "a", "n", "k", " ", "c", "o", "d", "e">>
      >>],
      [column_type |-> "address", variants |-> <<
          <<"a", "d", "d", "r", "e", "s", "s">>,
          <<"b", "e", "n", "e", "f", "i", "c", "i", "a", "r", "y", " ", "a", "d", "d", "r", "e", "s", "s">>,
          <<"a", "c", "c", "o", "u", "n", "t", " ", "h", "o", "l", "d", "e", "r", " ", "a", "d", "d", "r", "e", "s", "s">>,
          <<"l", "o", "c", "a", "t", "i", "o", "n">>
      >>],
      [column_type |-> "amount", variants |-> <<
          <<"a", "m", "o", "u", "n", "t">>,
          <<"t", "r", "a", "n", "s", "a", "c", "t", "i", "o", "n", " ", "a", "m", "o", "u", "n", "t">>,
          <<"t", "x", "n", " ", "a", "m", "o", "u", "n", "t">>,
          <<"t", "r", "a", "n", "s", "f", "e", "r", " ", "a", "m", "o", "u", "n", "t">>,
          <<"f", "r", "a", "u", "d", " ", "a", "m", "o", "u", "n", "t">>
      >>],
      [column_type |-> "disputed_amount", variants |-> <<
          <<"d", "i", "s", "p", "u", "t", "e", "d", " ", "a", "m", "o", "u", "n", "t">>,
          <<"d", "i", "s", "p", "u", "t", "e", "d">>,
          <<"c", "l", "a", "i", "m", " ", "a", "m", "o", "u", "n", "t">>,
          <<"d", "i", "s", "p", "u", "t", "e", "d", " ", "a", "m", "t">>,
          <<"c", "h", "a", "r", "g", "e", "b", "a", "c", "k", " ", "a", "m", "o", "u", "n", "t">>
      >>],
      [column_type |-> "bank_name", variants |-> <<
          <<"b", "a", "n", "k", " ", "n", "a", "m", "e">>,
          <<"b", "a", "n", "k">>,
          <<"b", "e", "n", "e", "f", "i", "c", "i", "a", "r", "y", " ", "b", "a", "n", "k">>,
          <<"r", "e", "c", "e", "i", "v", "i", "n", "g", " ", "b", "a", "n", "k">>
      >>],
      [column_type |-> "district", variants |-> <<
          <<"d", "i", "s", "t", "r", "i", "c", "t">>,
          <<"d", "i", "s", "t">>,
          <<"d", "i", "s", "t", "r", "i", "c", "t", " ", "n", "a", "m", "e">>
      >>],
      [column_type |-> "state", variants |-> <<
          <<"s", "t", "a", "t", "e">>,
          <<"s", "t", "a", "t", "e", " ", "n", "a", "m", "e">>,
          <<"p", "r", "o", "v", "i", "n", "c", "e">>
      >>]
    >>

\* The (column_type, variant) pairs in the order the two nested loops of
\* _find_best_match visit them.
RECURSIVE VariantPairsFrom(_)
VariantPairsFrom(k) ==
    IF k > Len(COLUMN_VARIANTS) THEN <<>>
    ELSE [i \in 1..Len(COLUMN_VARIANTS[k].variants) |->
             [column_type |-> COLUMN_VARIANTS[k].column_type,
              variant |-> COLUMN_VARIANTS[k].variants[i]]]
         \o VariantPairsFrom(k + 1)

VariantPairs == VariantPairsFrom(1)

CanonicalFields == {COLUMN_VARIANTS[k].column_type : k \in 1..Len(COLUMN_VARIANTS)}

(***************************************************************************)
(* rapidfuzz.fuzz.  A score is the exact fraction <<n, d>> in lowest terms *)
(* of the similarity in [0, 1] (the code divides the percentage by 100).   *)
(***************************************************************************)
RECURSIVE Gcd(_, _)
Gcd(a, b) == IF b = 0 THEN a ELSE Gcd(b, a % b)

Fraction(n, d) == <<n \div Gcd(n, d), d \div Gcd(n, d)>>

ScoreGreater(x, y) == x[1] * y[2] > y[1] * x[2]

ScoreAtLeast(x, y) == x[1] * y[2] >= y[1] * x[2]

MaxScore(x, y) == IF ScoreGreater(y, x) THEN y ELSE x

Max(a, b) == IF a > b THEN a ELSE b

\* One row of the longest-common-subsequence table: cur holds the entries
\* of columns 0..Len(cur)-1 of the row of character c, prev the row above.
RECURSIVE LcsRow(_, _, _, _)
LcsRow(c, t, prev, cur) ==
    IF Len(cur) = Len(t) + 1 THEN cur
    ELSE LET j == Len(cur)
         IN LcsRow(c, t, prev,
                   Append(cur, IF c = t[j] THEN prev[j] + 1
                               ELSE Max(prev[j + 1], cur[j])))

RECURSIVE LcsRows(_, _, _)
LcsRows(s, t, prev) ==
    IF s = <<>> THEN prev
    ELSE LcsRows(Tail(s), t, LcsRow(Head(s), t, prev, <<0>>))

\* Length of a longest common subsequence of s and t.
Lcs(s, t) == LcsRows(s, t, [j \in 1..Len(t) + 1 |-> 0])[Len(t) + 1]

\* fuzz.ratio(s1, s2) / 100.0: the normalized Indel similarity
\* 1 - (len1 + len2 - 2 * lcs) / (len1 + len2).
ratio(s1, s2) ==
    IF Len(s1) + Len(s2) = 0 THEN <<1, 1>>
    ELSE Fraction(2 * Lcs(s1, s2), Len(s1) + Len(s2))

\* str.split()
RECURSIVE Split(_)
Split(s) ==
    LET body == LStrip(s)
        n == IF \E i \in 1..Len(body) : IsSpace(body[i])
             THEN (CHOOSE i \in 1..Len(body) :
                      IsSpace(body[i]) /\ \A k \in 1..i - 1 : ~IsSpace(body[k])) - 1
             ELSE Len(body)
    IN IF body = <<>> THEN <<>>
       ELSE <<SubSeq(body, 1, n)>> \o Split(SubSeq(body, n + 1, Len(body)))

\* s < t on the strings of headers and variants
RECURSIVE TokenLess(_, _)
TokenLess(s, t) ==
    IF t = <<>> THEN FALSE
    ELSE IF s = <<>> THEN TRUE
    ELSE IF Head(s) = Head(t) THEN TokenLess(Tail(s), Tail(t))
    ELSE CodePoint[Head(s)] < CodePoint[Head(t)]

\* sorted(tokens)
RECURSIVE SortTokens(_)
SortTokens(tokens) ==
    IF tokens = <<>> THEN <<>>
    ELSE LET rest == SortTokens(Tail(tokens))
             k == Cardinality({i \in 1..Len(rest) : TokenLess(rest[i], Head(tokens))})
         IN SubSeq(rest, 1, k) \o <<Head(tokens)>> \o SubSeq(rest, k + 1, Len(rest))

\* fuzz.token_sort_ratio(s1, s2) / 100.0
token_sort_ratio(s1, s2) ==
    ratio(Join(SortTokens(Split(s1)), <<" ">>), Join(SortTokens(Split(s2)), <<" ">>))

(***************************************************************************)
(* ColumnDetector._find_best_match                                         *)
(***************************************************************************)
\* The threshold lowered to 0.70.
SIMILARITY_THRESHOLD_Seventy == <<7, 10>>

\* SIMILARITY_THRESHOLD = 0.80
SIMILARITY_THRESHOLD == <<4, 5>>

\* Python's None where a column type is expected.
NoType == "None"

\* original_header.strip() only: letter case kept.
ExactKey_CaseKept(original_header) == Strip(original_header)

\* original_lower = original_header.lower().strip() if original_header else ""
ExactKey(original_header) == Strip(Lower(original_header))

\* score = max(ratio, token_sort)
FuzzyScore(normalized_header, variant) ==
    MaxScore(ratio(normalized_header, variant), token_sort_ratio(normalized_header, variant))

\* A threshold of 0.70.
ClearsThreshold_Seventy(score) == ScoreAtLeast(score, <<7, 10>>)

\* score >= self.SIMILARITY_THRESHOLD
ClearsThreshold(score) == ScoreAtLeast(score, SIMILARITY_THRESHOLD)

\* The matches the second pass appends to all_matches, in the order of its
\* two loops: the pairs whose score clears the threshold.
FuzzyMatches(normalized_header) ==
    SelectSeq([i \in 1..Len(VariantPairs) |->
                  <<VariantPairs[i].column_type,
                    FuzzyScore(normalized_header, VariantPairs[i].variant)>>],
              LAMBDA match : ClearsThreshold(match[2]))

\* The match the second pass leaves in best_match and best_score: `score >
\* best_score` replaces on a strictly greater score only, so the first match
\* of the greatest score stays.
BestIndex(all_matches) ==
    CHOOSE k \in 1..Len(all_matches) :
        \A j \in 1..Len(all_matches) :
            /\ j < k => ScoreGreater(all_matches[k][2], all_matches[j][2])
            /\ j > k => ScoreAtLeast(all_matches[k][2], all_matches[j][2])

FuzzyPass(normalized_header) ==
    LET all_matches == FuzzyMatches(normalized_header)
    IN IF all_matches = <<>>
       THEN [best_match |-> NoType, best_score |-> <<0, 1>>, all_matches |-> <<>>]
       ELSE [best_match |-> all_matches[BestIndex(all_matches)][1],
             best_score |-> all_matches[BestIndex(all_matches)][2],
             all_matches |-> all_matches]

find_best_match(normalized_header, original_header) ==
    LET original_lower == ExactKey(original_header)
        exact == SelectSeq(VariantPairs, LAMBDA p : original_lower = Lower(p.variant))
    IN IF exact # <<>>
       THEN [best_match |-> exact[1].column_type,
             best_score |-> <<1, 1>>,
             all_matches |-> [i \in 1..Len(exact) |-> <<exact[i].column_type, <<1, 1>>>>]]
       ELSE FuzzyPass(normalized_header)

(***************************************************************************)
(* ColumnDetector.detect_columns and validate_required_columns             *)
(***************************************************************************)
\* mapping = ColumnMapping()
EmptyMapping == [f \in CanonicalFields |-> None]

\* d[k] = v on a dict
Put(d, k, v) == [x \in DOMAIN d \cup {k} |-> IF x = k THEN v ELSE d[x]]

\* unique_types = list(set(match[0] for match in all_matches)); the order of
\* the list is the iteration order of a set, so the set is kept.
UniqueTypes(all_matches) == {all_matches[i][1] : i \in 1..Len(all_matches)}

\* More than two types.
IsAmbiguous_MoreThanTwo(unique_types) == Cardinality(unique_types) > 2

\* len(unique_types) > 1
IsAmbiguous(unique_types) == Cardinality(unique_types) > 1

\* The comparison taken as >=.
Replaces_OrEqual(best_score, existing_score) == ScoreAtLeast(best_score, existing_score)

\* best_score > existing_score
Replaces(best_score, existing_score) == ScoreGreater(best_score, existing_score)

\* The header stored in lower case.
SetAttr_Lowered(m, column_type, h) == [m EXCEPT ![column_type] = Lower(h)]

\* setattr(mapping, best_match, header)
SetAttr(m, column_type, h) == [m EXCEPT ![column_type] = h]

\* Only the amount is looked at.
validate_required_columns_AmountOnly(m) ==
    IF m.amount = None THEN <<"amount">> ELSE <<>>

validate_required_columns(m) ==
    (IF m.bank_account_number = None THEN <<"bank_account_number">> ELSE <<>>)
    \o (IF m.amount = None THEN <<"amount">> ELSE <<>>)

(***************************************************************************)
(* detect_columns called on any list of headers.  The pool holds an exact  *)
(* variant, the same with trailing whitespace, near variants with equal    *)
(* fuzzy scores, a header whose only close variant is a substring of it, a *)
(* header close to variants of two types, an exact variant that is also    *)
(* close to another type, a variant with its words swapped, a header that  *)
(* scores exactly 0.80, an unrelated header and '#'.                       *)
(***************************************************************************)
HeaderPool ==
    {
     <<"A", "m", "o", "u", "n", "t">>,
     <<"a", "m", "o", "u", "n", "t", " ">>,
     <<"A", "m", "o", "u", "n", "t", "s">>,
     <<"A", "m", "o", "u", "n", "t", "1">>,
     <<"A", "m", "o", "u", "n", "t", " ", "P", "a", "i", "d">>,
     <<"a", "c", "c", " ", "n", "o">>,
     <<"a", "c", "k", " ", "n", "o">>,
     <<"A", "c", "c", "o", "u", "n", "t", " ", "N", "o">>,
     <<"N", "o", " ", "A", "c", "c", "o", "u", "n", "t">>,
     <<"I", "F", "S", "C", "1", "2">>,
     <<"R", "e", "m", "a", "r", "k", "s">>,
     <<"#">>
    }

\* Every variant of the lexicon as a header: as written, in capitals, and
\* in capitals with whitespace around it.
ExactHeaders ==
    UNION {{VariantPairs[i].variant,
            Upper(VariantPairs[i].variant),
            <<" ">> \o Upper(VariantPairs[i].variant) \o <<"\t">>} : i \in 1..Len(VariantPairs)}

\* normalized = self.normalize_header(header)
\* best_match, best_score, all_matches = self._find_best_match(normalized, header)
\* evaluated once for each header of the model.
BestMatches ==
    {<<h, find_best_match(normalize_header(h), h)>> : h \in HeaderPool \cup ExactHeaders}

BestMatchOf(h) == (CHOOSE p \in BestMatches : p[1] = h)[2]

InitDetect ==
    /\ headers \in SeqsUpTo(HeaderPool, MaxHeaders) \cup {<<h>> : h \in ExactHeaders}
    /\ idx = 0
    /\ detected = EmptyMapping
    /\ assigned_types = <<>>
    /\ confidence_scores = <<>>
    /\ ambiguous_mappings = <<>>
    /\ missing = <<>>
    /\ pc = "detecting"
    /\ header = <<>>
    /\ normalized = <<>>
    /\ AggregationIdle
    /\ ProcessorIdle
    /\ AppIdle

\* One iteration of `for header in headers`.
DetectHeader ==
    /\ pc = "detecting"
    /\ idx < Len(headers)
    /\ LET h == headers[idx + 1]
           m == BestMatchOf(h)
           unique_types == UniqueTypes(m.all_matches)
       IN IF m.best_match = NoType
          THEN UNCHANGED <<detected, assigned_types, confidence_scores, ambiguous_mappings>>
          ELSE /\ ambiguous_mappings' =
                      IF IsAmbiguous(unique_types)
                      THEN Put(ambiguous_mappings, h, unique_types)
                      ELSE ambiguous_mappings
               /\ IF m.best_match \in DOMAIN assigned_types
                     /\ ~Replaces(m.best_score, confidence_scores[m.best_match])
                  THEN UNCHANGED <<detected, assigned_types, confidence_scores>>
                  ELSE /\ assigned_types' = Put(assigned_types, m.best_match, h)
                       /\ confidence_scores' = Put(confidence_scores, m.best_match, m.best_score)
                       /\ detected' = SetAttr(detected, m.best_match, h)
    /\ idx' = idx + 1
    /\ UNCHANGED <<df, mapping, pc, aggregated, sorted_accounts, header, normalized,
                   headers, missing, processorVars, appVars>>

\* mapping.confidence_scores = confidence_scores
\* mapping.ambiguous_mappings = ambiguous_mappings
\* return mapping
ReturnMapping ==
    /\ pc = "detecting"
    /\ idx = Len(headers)
    /\ pc' = "detected"
    /\ UNCHANGED <<df, mapping, aggregated, sorted_accounts, detectorVars, processorVars, appVars>>

\* missing = column_detector.validate_required_columns(mapping)
ValidateRequired ==
    /\ pc = "detected"
    /\ missing' = validate_required_columns(detected)
    /\ pc' = "validated"
    /\ UNCHANGED <<df, mapping, aggregated, sorted_accounts, header, normalized, headers,
                   idx, detected, assigned_types, confidence_scores, ambiguous_mappings,
                   processorVars, appVars>>

NextDetect == DetectHeader \/ ReturnMapping \/ ValidateRequired

SpecDetect == InitDetect /\ [][NextDetect]_vars

(***************************************************************************)
(* DataProcessor.parse_amount.  A float is kept as its exact decimal       *)
(* expansion: the digits before the point without leading zeros and the    *)
(* digits after it without trailing zeros; nan and inf are floats of their *)
(* own kind.                                                               *)
(***************************************************************************)
CURRENCY_SYMBOLS_RsFirst ==
    << <<"₹">>, <<"$">>, <<"£">>, <<"€">>, <<"R", "s">>, <<"R", "s", ".">>,
       <<"I", "N", "R">>, <<"U", "S", "D">> >>

CURRENCY_SYMBOLS ==
    << <<"₹">>, <<"$">>, <<"£">>, <<"€">>, <<"R", "s", ".">>, <<"R", "s">>,
       <<"I", "N", "R">>, <<"U", "S", "D">> >>

\* s.replace(old, new)
RECURSIVE Replace(_, _, _)
Replace(s, old, new) ==
    IF Len(s) < Len(old) THEN s
    ELSE IF SubSeq(s, 1, Len(old)) = old
         THEN new \o Replace(SubSeq(s, Len(old) + 1, Len(s)), old, new)
         ELSE <<Head(s)>> \o Replace(Tail(s), old, new)

\* for symbol in self.CURRENCY_SYMBOLS: cleaned = cleaned.replace(symbol, '')
RECURSIVE RemoveSymbols(_, _)
RemoveSymbols(s, k) ==
    IF k > Len(CURRENCY_SYMBOLS) THEN s
    ELSE RemoveSymbols(Replace(s, CURRENCY_SYMBOLS[k], <<>>), k + 1)

RECURSIVE StripLeadingZeros(_)
StripLeadingZeros(ds) ==
    IF ds # <<>> /\ Head(ds) = "0" THEN StripLeadingZeros(Tail(ds)) ELSE ds

RECURSIVE StripTrailingZeros(_)
StripTrailingZeros(ds) ==
    IF ds # <<>> /\ ds[Len(ds)] = "0"
    THEN StripTrailingZeros(SubSeq(ds, 1, Len(ds) - 1)) ELSE ds

\* The float of sign neg with the digits int before and frac after the
\* point; -0.0 and 0.0 are equal floats.
Float(neg, int, frac) ==
    LET i == StripLeadingZeros(int)
        f == StripTrailingZeros(frac)
    IN [kind |-> "float", neg |-> neg /\ (i # <<>> \/ f # <<>>), int |-> i, frac |-> f]

Zero == Float(FALSE, <<>>, <<>>)

NanFloat == [kind |-> "nan", neg |-> FALSE, int |-> <<>>, frac |-> <<>>]

InfFloat(neg) == [kind |-> "inf", neg |-> neg, int |-> <<>>, frac |-> <<>>]

ValueError == [kind |-> "ValueError", neg |-> FALSE, int |-> <<>>, frac |-> <<>>]

\* A decimal numeral: digits with at most one point and at least one digit.
IsNumeral(s) ==
    /\ \A i \in 1..Len(s) : s[i] \in Range(Digits) \cup {"."}
    /\ Cardinality({i \in 1..Len(s) : s[i] = "."}) <= 1
    /\ \E i \in 1..Len(s) : s[i] \in Range(Digits)

NumeralValue(neg, s) ==
    LET point == IF \E i \in 1..Len(s) : s[i] = "."
                 THEN CHOOSE i \in 1..Len(s) : s[i] = "."
                 ELSE Len(s) + 1
    IN Float(neg, SubSeq(s, 1, point - 1), SubSeq(s, point + 1, Len(s)))

\* float(s) on the strings of the model, which hold no exponent and no
\* underscore: surrounding whitespace and one sign are accepted, then a
\* decimal numeral or, in any letter case, nan, inf or infinity.
float(s) ==
    LET t == Strip(s)
        signed == t # <<>> /\ Head(t) \in {"+", "-"}
        neg == t # <<>> /\ Head(t) = "-"
        body == IF signed THEN Tail(t) ELSE t
    IN IF IsNumeral(body) THEN NumeralValue(neg, body)
       ELSE IF Lower(body) = <<"n", "a", "n">> THEN NanFloat
       ELSE IF Lower(body) \in {<<"i", "n", "f">>, <<"i", "n", "f", "i", "n", "i", "t", "y">>}
            THEN InfFloat(neg)
       ELSE ValueError

parse_amount(value) ==
    IF value \in {None, <<"n", "a", "n">>, <<"N", "o", "n", "e">>, <<>>} THEN Zero
    ELSE LET stripped == Strip(value)
             cleaned == Strip(Replace(RemoveSymbols(stripped, 1), <<",">>, <<>>))
             signed == IF cleaned # <<>> /\ Head(cleaned) = "(" /\ cleaned[Len(cleaned)] = ")"
                       THEN <<"-">> \o SubSeq(cleaned, 2, Len(cleaned) - 1)
                       ELSE cleaned
         IN IF stripped = <<>> THEN Zero
            ELSE IF float(signed) = ValueError THEN Zero
            ELSE float(signed)

(***************************************************************************)
(* parse_amount on one string: every string of at most MaxAmountLen        *)
(* characters over AmountChars, and the inputs of TestAmountParsing.       *)
(***************************************************************************)
AmountChars == {"1", "0", ".", ",", "-", "(", ")", " ", "$", "n", "a"}

TestAmounts ==
    { None,
      <<"N", "o", "n", "e">>,
      <<"N", "a", "N">>,
      <<"i", "n", "f">>,
      <<"1", "0", "0", "0", ".", "0", "0">>,
      <<"₹", "1", "0", "0", "0", ".", "0", "0">>,
      <<"$", "1", "0", "0", "0", ".", "0", "0">>,
      <<"1", ",", "0", "0", "0", ",", "0", "0", "0", ".", "0", "0">>,
      <<"₹", "1", ",", "0", "0", ",", "0", "0", "0", ".", "0", "0">>,
      <<"R", "s", ".", " ", "5", "0", "0", "0">>,
      <<"n", "o", "t", " ", "a", " ", "n", "u", "m", "b", "e", "r">> }

InitParse ==
    /\ amount_str \in SeqsUpTo(AmountChars, MaxAmountLen) \cup TestAmounts
    /\ parsed = <<>>
    /\ raw_df = <<>>
    /\ pc = "amount"
    /\ AggregationIdle
    /\ header = <<>>
    /\ normalized = <<>>
    /\ headers = <<>>
    /\ idx = 0
    /\ detected = <<>>
    /\ assigned_types = <<>>
    /\ confidence_scores = <<>>
    /\ ambiguous_mappings = <<>>
    /\ missing = <<>>
    /\ AppIdle

ParseAmount ==
    /\ pc = "amount"
    /\ parsed' = <<parse_amount(amount_str)>>
    /\ pc' = "parsed"
    /\ UNCHANGED <<df, mapping, aggregated, sorted_accounts, detectorVars,
                   amount_str, raw_df, appVars>>

NextParse == ParseAmount

SpecParse == InitParse /\ [][NextParse]_vars

(***************************************************************************)
(* test_property_amount_parsing_correctness: an amount is its whole units  *)
(* and its thousandths; it is formatted to 2 decimals as "{:,.2f}" or      *)
(* "{:.2f}" does, after a currency marker.                                 *)
(***************************************************************************)
AmountUnits == {0, 1, 12, 999, 1000, 1234, 99999, 100000, 1234567, 99999999}

AmountThousandths == {0, 4, 5, 6, 10, 14, 15, 500, 560, 994, 995, 996, 999}

Amounts ==
    {a \in [units : AmountUnits, thousandths : AmountThousandths] :
        a.units > 0 \/ a.thousandths >= 10}
    \cup {[units |-> 100000000, thousandths |-> 0]}

Markers ==
    {CURRENCY_SYMBOLS[k] : k \in 1..Len(CURRENCY_SYMBOLS)} \cup {<<>>, <<"R", "s", " ">>}

RECURSIVE DigitsOf(_)
DigitsOf(n) == IF n < 10 THEN <<Digits[n + 1]>> ELSE DigitsOf(n \div 10) \o <<Digits[(n % 10) + 1]>>

\* The hundredths a float with these thousandths rounds to; a float written
\* with a final 5 lies on either side of the tie.
RoundedHundredths(t) ==
    IF t % 10 < 5 THEN {t \div 10}
    ELSE IF t % 10 > 5 THEN {(t \div 10) + 1}
    ELSE {t \div 10, (t \div 10) + 1}

\* The "," option of the format: a comma before every group of three digits.
RECURSIVE Grouped(_)
Grouped(ds) ==
    IF Len(ds) <= 3 THEN ds
    ELSE Grouped(SubSeq(ds, 1, Len(ds) - 3)) \o <<",">> \o SubSeq(ds, Len(ds) - 2, Len(ds))

\* f"{currency_symbol}{amount:,.2f}" or f"{currency_symbol}{amount:.2f}"
Format(a, marker, commas, hundredths) ==
    LET units == a.units + (hundredths \div 100)
        cents == hundredths % 100
        whole == IF commas THEN Grouped(DigitsOf(units)) ELSE DigitsOf(units)
    IN marker \o whole \o <<".">> \o <<Digits[(cents \div 10) + 1], Digits[(cents % 10) + 1]>>

\* Every formatted amount with the amount it was formatted from.
Formatted ==
    UNION {UNION {UNION {{<<Format(a, m, c, h), a>> : h \in RoundedHundredths(a.thousandths)}
                            : c \in BOOLEAN} : m \in Markers} : a \in Amounts}

InitRoundTrip ==
    /\ amount_str \in {e[1] : e \in Formatted}
    /\ parsed = <<>>
    /\ raw_df = <<>>
    /\ pc = "amount"
    /\ AggregationIdle
    /\ header = <<>>
    /\ normalized = <<>>
    /\ headers = <<>>
    /\ idx = 0
    /\ detected = <<>>
    /\ assigned_types = <<>>
    /\ confidence_scores = <<>>
    /\ ambiguous_mappings = <<>>
    /\ missing = <<>>
    /\ AppIdle

SpecRoundTrip == InitRoundTrip /\ [][NextParse]_vars

(***************************************************************************)
(* DataProcessor.clean_dataframe.  The uploaded frame holds strings, None  *)
(* and nan in the columns Account, Ack, Cat and Amount, and floats in      *)
(* Disputed.  A column of nothing but nan is a float64 column; any other   *)
(* of the first four is an object column.                                  *)
(***************************************************************************)
TextColumns == {"Account", "Ack", "Cat", "Amount"}

StrNan == <<"n", "a", "n">>
StrNone == <<"N", "o", "n", "e">>
StrNA == <<"<", "N", "A", ">">>

\* select_dtypes(include=['object']) on the frame as uploaded
ObjectColumns(frame) ==
    {c \in TextColumns : \E i \in 1..Len(frame) : frame[i][c] # NaN}

\* astype(str) on one cell of a text column: str() of the cell, nulls
\* included (pandas 1.x and 2.x)
AsStr(cell) ==
    IF cell = NaN THEN StrNan
    ELSE IF cell = NA THEN StrNA
    ELSE IF cell = None THEN StrNone
    ELSE cell

\* isna() on one cell
IsNa(col, cell) == IF col \in TextColumns THEN ~NotNa(cell) ELSE cell = <<>>

\* df.replace(r'^\s*$', pd.NA, regex=True); dropna(how='all')
remove_empty_rows(frame) ==
    LET replaced == [i \in 1..Len(frame) |->
                       [c \in DfColumns |->
                          IF c \in TextColumns /\ NotNa(frame[i][c]) /\ Strip(frame[i][c]) = <<>>
                          THEN NA ELSE frame[i][c]]]
    IN SelectSeq(replaced, LAMBDA row : \E c \in DfColumns : ~IsNa(c, row[c]))

\* astype(str).str.strip(), then replace('nan', pd.NA), on one cell
TrimCell(cell) ==
    LET stripped == Strip(AsStr(cell))
    IN IF stripped = StrNan THEN NA ELSE stripped

trim_whitespace(frame, str_cols) ==
    [i \in 1..Len(frame) |->
        [c \in DfColumns |-> IF c \in str_cols THEN TrimCell(frame[i][c]) ELSE frame[i][c]]]

\* astype(str), str.replace(r'[\s\-]', ''), replace(['nan', 'None', ''], pd.NA)
\* on one cell
standardize_account_numbers_vectorized(cell) ==
    LET result == SelectSeq(AsStr(cell), LAMBDA ch : ~(IsSpace(ch) \/ ch = "-"))
    IN IF result \in {StrNan, StrNone, <<>>} THEN NA ELSE result

RECURSIVE ToInt(_)
ToInt(ds) ==
    IF ds = <<>> THEN 0
    ELSE ToInt(SubSeq(ds, 1, Len(ds) - 1)) * 10
         + ((CHOOSE k \in 1..10 : Digits[k] = ds[Len(ds)]) - 1)

\* pd.to_numeric(result, errors='coerce') on the strings of the model
to_numeric(s) == IF float(s) = ValueError THEN NanFloat ELSE float(s)

\* A parsed amount as a cell of a numeric column; the amounts of the frames
\* are whole rupees.
AmountCell(v) == <<IF v.neg THEN -ToInt(v.int) ELSE ToInt(v.int)>>

\* parse_amounts_vectorized on one cell of a text column
ParseText(cell) ==
    LET stripped == Strip(AsStr(cell))
        cleaned == Strip(Replace(RemoveSymbols(stripped, 1), <<",">>, <<>>))
        signed == IF cleaned # <<>> /\ Head(cleaned) = "(" /\ cleaned[Len(cleaned)] = ")"
                  THEN <<"-">> \o SubSeq(cleaned, 2, Len(cleaned) - 1)
                  ELSE cleaned
    IN IF to_numeric(signed) = NanFloat THEN Zero ELSE to_numeric(signed)

\* parse_amounts_vectorized on one cell: a float goes through str() and
\* to_numeric unchanged, nan becomes 0.0
parse_amounts_vectorized(col, cell) ==
    IF col \in TextColumns THEN AmountCell(ParseText(cell))
    ELSE IF cell = <<>> THEN <<0>> ELSE cell

\* parse_amount on one cell of the uploaded frame, as a cell of a numeric
\* column.  A float is neither None nor equal to a string, so it goes through
\* str(): a number comes back as itself and nan as float('nan'), the null
\* of a numeric column.
parse_amount_cell(col, cell) ==
    IF col \in TextColumns
    THEN LET p == IF cell = NaN THEN NanFloat ELSE parse_amount(cell)
         IN IF p.kind = "float" THEN AmountCell(p) ELSE NoAmount
    ELSE cell

\* df[col] = self.standardize_account_numbers_vectorized(df[col])
StandardizeColumn(frame, col) ==
    [i \in 1..Len(frame) |->
        [frame[i] EXCEPT ![col] = standardize_account_numbers_vectorized(frame[i][col])]]

\* df[col] = self.parse_amounts_vectorized(df[col])
ParseColumn(frame, col) ==
    [i \in 1..Len(frame) |->
        [frame[i] EXCEPT ![col] = parse_amounts_vectorized(col, frame[i][col])]]

clean_dataframe(frame, m) ==
    LET step1 == remove_empty_rows(frame)
        step2 == trim_whitespace(step1, ObjectColumns(frame))
        step3 == IF Mapped(m.bank_account_number)
                 THEN StandardizeColumn(step2, m.bank_account_number)
                 ELSE step2
        step4 == IF Mapped(m.amount)
                 THEN ParseColumn(step3, m.amount)
                 ELSE step3
    IN IF Mapped(m.disputed_amount)
       THEN ParseColumn(step4, m.disputed_amount)
       ELSE step4

(***************************************************************************)
(* The pipeline from the uploaded frame: clean, aggregate, sort.           *)
(***************************************************************************)
RawAccounts ==
    { NaN, None, <<>>, <<" ">>, <<"-">>, <<" ", "-", " ">>, StrNan, StrNone,
      <<"A", "1">>, <<"A", " ", "1">>, <<"A", "-", "1">>, <<" ", "A", "2", " ">> }

RawRows ==
    [Account : RawAccounts,
     Amount : {<<"1", ",", "5", "0", "0">>},
     Disputed : {<<700>>},
     Ack : {NaN},
     Cat : {<<" ", "X">>}]
    \cup
    [Account : {NaN, <<>>, <<"A", "1">>, <<"-">>, StrNone},
     Amount : {NaN},
     Disputed : {NoAmount},
     Ack : {NaN},
     Cat : {NaN}]

\* Rows that vary a text column no field of the mapping standardizes.
TextRows ==
    [Account : {<<"A", "1">>},
     Amount : {<<"1", ",", "5", "0", "0">>},
     Disputed : {<<700>>},
     Ack : {NaN},
     Cat : {NaN, None, <<>>, <<" ">>, StrNan, StrNone, <<" ", "X", "\t">>}]

\* Rows that vary the amount cell.
AmountRows ==
    [Account : {<<"A", "1">>},
     Amount : {NaN, None, <<>>, <<"N", "a", "N">>, <<"x">>, <<" ", "7", " ">>,
               <<"(", "1", "5", "0", "0", ")">>, <<"R", "s", ".", " ", "2", "0">>},
     Disputed : {NoAmount},
     Ack : {NaN},
     Cat : {NaN}]

CleanMappings ==
    {MakeMapping("Account", "Amount", "Disputed", NoCol,
                 [f \in DOMAIN NoModes |-> IF f = "bank_name" THEN "Cat" ELSE NoCol]),
     MakeMapping("Account", NoCol, NoCol, NoCol, NoModes),
     MakeMapping(NoCol, "Amount", NoCol, NoCol, NoModes)}

InitClean ==
    /\ raw_df \in SeqsUpTo(RawRows, MaxCleanRows)
                   \cup SeqsUpTo(TextRows, MaxCleanRows)
                   \cup SeqsUpTo(AmountRows, MaxCleanRows)
    /\ mapping \in CleanMappings
    /\ df = <<>>
    /\ pc = "uploaded"
    /\ aggregated = <<>>
    /\ sorted_accounts = <<>>
    /\ DetectorIdle
    /\ amount_str = <<>>
    /\ parsed = <<>>
    /\ AppIdle

\* cleaned_df = data_processor.clean_dataframe(df, mapping)
CleanDataframe ==
    /\ pc = "uploaded"
    /\ df' = clean_dataframe(raw_df, mapping)
    /\ pc' = "loaded"
    /\ UNCHANGED <<mapping, aggregated, sorted_accounts, detectorVars, processorVars, appVars>>

\* result = processor.remove_empty_rows(df), called on its own
RemoveEmptyRows ==
    /\ pc = "uploaded"
    /\ df' = remove_empty_rows(raw_df)
    /\ pc' = "rows_removed"
    /\ UNCHANGED <<mapping, aggregated, sorted_accounts, detectorVars, processorVars, appVars>>

NextClean == CleanDataframe \/ RemoveEmptyRows \/ Aggregate \/ SortResults

SpecClean == InitClean /\ [][NextClean]_vars

(***************************************************************************)
(* ValidationEngine.validate_dataframe and the processing page of the      *)
(* application: clean, validate, aggregate, sort, store.                   *)
(***************************************************************************)
ValidationResult(is_valid, critical_errors, quality_report) ==
    [is_valid |-> is_valid,
     critical_errors |-> critical_errors,
     warnings |-> <<>>,
     flagged_rows |-> <<>>,
     quality_report |-> quality_report]

\* Only the account column is looked for.
validate_dataframe_AccountOnly(frame, m) ==
    IF ~Mapped(m.bank_account_number)
    THEN ValidationResult(FALSE, <<"NO_ACCOUNT_COLUMN">>, <<>>)
    ELSE ValidationResult(TRUE, <<>>,
                          [total_rows |-> Len(frame),
                           missing_account_numbers |-> 0,
                           missing_amounts |-> 0])

validate_dataframe(frame, m) ==
    IF ~Mapped(m.bank_account_number)
    THEN ValidationResult(FALSE, <<"NO_ACCOUNT_COLUMN">>, <<>>)
    ELSE IF ~Mapped(m.amount)
    THEN ValidationResult(FALSE, <<"NO_AMOUNT_COLUMN">>, <<>>)
    ELSE ValidationResult(TRUE, <<>>,
                          [total_rows |-> Len(frame),
                           missing_account_numbers |-> 0,
                           missing_amounts |-> 0])

\* _check_critical_missing_data, on one cell:
\* pd.isna(val) or str(val).strip() in ['', 'nan', 'None']
MissingValue(col, cell) ==
    IF col \in TextColumns
    THEN ~NotNa(cell) \/ Strip(cell) \in {<<>>, StrNan, StrNone}
    ELSE cell = <<>>

RECURSIVE SumField(_, _)
SumField(accounts, field) ==
    IF accounts = <<>> THEN 0
    ELSE Head(accounts)[field] + SumField(Tail(accounts), field)

\* Dashboard.calculate_statistics; the average is kept as the pair of the
\* total and the number of accounts it is divided by.
calculate_statistics(accounts, total_input_rows, rows_with_errors) ==
    [total_input_rows |-> total_input_rows,
     rows_processed |-> total_input_rows - rows_with_errors,
     rows_with_errors |-> rows_with_errors,
     unique_accounts |-> Len(accounts),
     total_fraud_amount |-> SumField(accounts, "total_amount"),
     total_disputed_amount |-> SumField(accounts, "total_disputed_amount"),
     average_amount_per_account |->
        IF accounts = <<>> THEN <<0, 1>>
        ELSE <<SumField(accounts, "total_amount"), Len(accounts)>>]

\* The uploaded rows: an account that is missing or present, an amount that
\* is missing, unparseable or a number, no acknowledgement number, and a
\* category that is missing or present.
ProcessRows ==
    [Account : {NaN, <<"A", "1">>},
     Amount : {NaN, <<"x">>, <<"1", ",", "5", "0", "0">>},
     Disputed : {NoAmount},
     Ack : {NaN},
     Cat : {NaN, <<"X">>}]

\* The two required columns mapped, unmapped, or mapped to a header the
\* dataset does not have.
ProcessMappings ==
    {MakeMapping(a, x, NoCol, "Ack",
                 [f \in DOMAIN NoModes |-> IF f = "bank_name" THEN "Cat" ELSE NoCol]) :
        a \in {"Account", NoCol, AbsentCol}, x \in {"Amount", NoCol, AbsentCol}}

InitProcess ==
    /\ raw_df \in SeqsUpTo(ProcessRows, MaxProcessRows)
    /\ mapping \in ProcessMappings
    /\ df = <<>>
    /\ pc = "processing"
    /\ aggregated = <<>>
    /\ sorted_accounts = <<>>
    /\ DetectorIdle
    /\ amount_str = <<>>
    /\ parsed = <<>>
    /\ AppIdle

\* Step 1: cleaned_df = data_processor.clean_dataframe(df, mapping)
ProcessClean ==
    /\ pc = "processing"
    /\ df' = clean_dataframe(raw_df, mapping)
    /\ pc' = "cleaned"
    /\ UNCHANGED <<mapping, aggregated, sorted_accounts, detectorVars, processorVars, appVars>>

\* Step 2: validation_result = validation_engine.validate_dataframe(cleaned_df, mapping);
\* `if not validation_result.is_valid: ... return`
Validate ==
    /\ pc = "cleaned"
    /\ validation_result' = <<validate_dataframe(df, mapping)>>
    /\ pc' = IF validate_dataframe(df, mapping).is_valid THEN "loaded" ELSE "stopped"
    /\ UNCHANGED <<df, mapping, aggregated, sorted_accounts, detectorVars, processorVars,
                   session_state, sessionVars, modeVars, jobVars>>

\* Step 4 and "Store results": stats = dashboard.calculate_statistics(...);
\* st.session_state.cleaned_df = cleaned_df, ...
StoreResults ==
    /\ pc = "sorted"
    /\ validation_result # <<>>
    /\ session_state' =
         <<[cleaned_df |-> df,
            validation_result |-> validation_result[1],
            aggregated_accounts |-> sorted_accounts,
            processing_stats |->
               calculate_statistics(sorted_accounts, Len(raw_df),
                                    Len(validation_result[1].flagged_rows))]>>
    /\ pc' = "stored"
    /\ UNCHANGED <<df, mapping, aggregated, sorted_accounts, detectorVars, processorVars,
                   validation_result, sessionVars, modeVars, jobVars>>

\* "Reprocess Data": the stored results are cleared and the page runs again.
Reprocess ==
    /\ pc = "stored"
    /\ session_state' = <<>>
    /\ validation_result' = <<>>
    /\ df' = <<>>
    /\ aggregated' = <<>>
    /\ sorted_accounts' = <<>>
    /\ pc' = "processing"
    /\ UNCHANGED <<mapping, detectorVars, processorVars, sessionVars, modeVars, jobVars>>

\* result = engine.validate_dataframe(df, mapping), called on the dataset as
\* uploaded
ValidateUploaded ==
    /\ pc = "processing"
    /\ validation_result' = <<validate_dataframe(raw_df, mapping)>>
    /\ pc' = "checked"
    /\ UNCHANGED <<df, mapping, aggregated, sorted_accounts, detectorVars, processorVars,
                   session_state, sessionVars, modeVars, jobVars>>

NextProcess ==
    \/ ProcessClean
    \/ Validate
    \/ Aggregate
    \/ SortResults
    \/ StoreResults
    \/ Reprocess
    \/ ValidateUploaded

SpecProcess == InitProcess /\ [][NextProcess]_vars

\* "Start Processing" is the user's to press; once the handler is running,
\* each of its remaining steps is taken when it is the next one.
SpecProcessFair ==
    SpecProcess /\ WF_vars(Validate \/ Aggregate \/ SortResults \/ StoreResults)

(***************************************************************************)
(* SessionManager.  Time is in minutes.  An id is what uuid4 returns: one  *)
(* that has not been issued before.                                        *)
(***************************************************************************)
SESSION_TIMEOUT_MINUTES == 30

SessionIds == 1..MaxSessions

\* The minutes that pass between two calls.
ClockSteps == {30, 31}

SessionKeys == {"key1"}
SessionValues == {"value1", "value2"}
Filenames == {"a.csv"}

\* del d[k]
Remove(d, k) == [x \in DOMAIN d \ {k} |-> d[x]]

\* check_timeout(session_id) at time t
check_timeout(ss, session_id, t) ==
    \/ session_id \notin DOMAIN ss
    \/ t - ss[session_id].last_activity > SESSION_TIMEOUT_MINUTES

\* Only the session info is removed.
cleanup_session_InfoOnly(ss, sd, session_id) ==
    [sessions |-> IF session_id \in DOMAIN ss THEN Remove(ss, session_id) ELSE ss,
     session_data |-> sd]

\* cleanup_session(session_id): the two dicts afterwards
cleanup_session(ss, sd, session_id) ==
    [sessions |-> IF session_id \in DOMAIN ss THEN Remove(ss, session_id) ELSE ss,
     session_data |-> IF session_id \in DOMAIN sd THEN Remove(sd, session_id) ELSE sd]

\* validate_session(session_id) at time t: the value returned and the two
\* dicts afterwards
validate_session(ss, sd, session_id, t) ==
    IF session_id \notin DOMAIN ss
    THEN [valid |-> FALSE, sessions |-> ss, session_data |-> sd]
    ELSE IF check_timeout(ss, session_id, t)
    THEN [valid |-> FALSE,
          sessions |-> cleanup_session(ss, sd, session_id).sessions,
          session_data |-> cleanup_session(ss, sd, session_id).session_data]
    ELSE [valid |-> TRUE,
          sessions |-> [ss EXCEPT ![session_id].last_activity = t],
          session_data |-> sd]

Outcome(call, session_id, result) ==
    [call |-> call, session_id |-> session_id, result |-> result]

InitSession ==
    /\ sessions = <<>>
    /\ session_data = <<>>
    /\ now = 0
    /\ issued = {}
    /\ outcome = <<>>
    /\ df = <<>>
    /\ mapping = <<>>
    /\ pc = "serving"
    /\ aggregated = <<>>
    /\ sorted_accounts = <<>>
    /\ DetectorIdle
    /\ ProcessorIdle
    /\ ValidationIdle
    /\ ModeIdle
    /\ JobsIdle

SessionFrame ==
    UNCHANGED <<df, mapping, pc, aggregated, sorted_accounts, detectorVars, processorVars,
                validationVars, modeVars, jobVars>>

\* datetime.now() moves on
Tick(d) ==
    /\ now + d <= MaxClock
    /\ now' = now + d
    /\ UNCHANGED <<sessions, session_data, issued, outcome>>
    /\ SessionFrame

CreateSession ==
    /\ Cardinality(issued) < MaxSessions
    /\ LET session_id == CHOOSE i \in SessionIds : i \notin issued /\ \A j \in 1..(i - 1) : j \in issued
       IN /\ sessions' = Put(sessions, session_id,
                             [created_at |-> now, last_activity |-> now, input_filename |-> "None"])
          /\ session_data' = Put(session_data, session_id, <<>>)
          /\ issued' = issued \cup {session_id}
          /\ outcome' = Outcome("create_session", session_id, "id")
    /\ UNCHANGED now
    /\ SessionFrame

ValidateSession(session_id) ==
    /\ LET v == validate_session(sessions, session_data, session_id, now)
       IN /\ sessions' = v.sessions
          /\ session_data' = v.session_data
          /\ outcome' = Outcome("validate_session", session_id, IF v.valid THEN "True" ELSE "False")
    /\ UNCHANGED <<now, issued>>
    /\ SessionFrame

StoreData(session_id, key, data) ==
    /\ LET v == validate_session(sessions, session_data, session_id, now)
       IN /\ sessions' = v.sessions
          /\ IF v.valid
             THEN /\ session_data' = [v.session_data EXCEPT
                                        ![session_id] = Put(v.session_data[session_id], key, data)]
                  /\ outcome' = Outcome("store_data", session_id, "None")
             ELSE /\ session_data' = v.session_data
                  /\ outcome' = Outcome("store_data", session_id, "ValueError")
    /\ UNCHANGED <<now, issued>>
    /\ SessionFrame

GetData(session_id, key) ==
    /\ LET v == validate_session(sessions, session_data, session_id, now)
       IN /\ sessions' = v.sessions
          /\ session_data' = v.session_data
          /\ outcome' =
               Outcome("get_data", session_id,
                       IF ~v.valid THEN "ValueError"
                       ELSE IF key \in DOMAIN v.session_data[session_id]
                            THEN v.session_data[session_id][key]
                            ELSE "None")
    /\ UNCHANGED <<now, issued>>
    /\ SessionFrame

GetSessionInfo(session_id) ==
    /\ LET v == validate_session(sessions, session_data, session_id, now)
       IN /\ sessions' = v.sessions
          /\ session_data' = v.session_data
          /\ outcome' = Outcome("get_session_info", session_id,
                                IF v.valid THEN "SessionInfo" ELSE "None")
    /\ UNCHANGED <<now, issued>>
    /\ SessionFrame

SetInputFilename(session_id, filename) ==
    /\ LET v == validate_session(sessions, session_data, session_id, now)
       IN /\ sessions' = IF v.valid
                         THEN [v.sessions EXCEPT ![session_id].input_filename = filename]
                         ELSE v.sessions
          /\ session_data' = v.session_data
          /\ outcome' = Outcome("set_input_filename", session_id,
                                IF v.valid THEN "None" ELSE "ValueError")
    /\ UNCHANGED <<now, issued>>
    /\ SessionFrame

CleanupSession(session_id) ==
    /\ sessions' = cleanup_session(sessions, session_data, session_id).sessions
    /\ session_data' = cleanup_session(sessions, session_data, session_id).session_data
    /\ outcome' = Outcome("cleanup_session", session_id, "None")
    /\ UNCHANGED <<now, issued>>
    /\ SessionFrame

\* cleanup_session on each of the expired sessions in turn
RECURSIVE CleanupAll(_, _, _)
CleanupAll(ss, sd, expired) ==
    IF expired = {} THEN [sessions |-> ss, session_data |-> sd]
    ELSE LET session_id == CHOOSE i \in expired : TRUE
             c == cleanup_session(ss, sd, session_id)
         IN CleanupAll(c.sessions, c.session_data, expired \ {session_id})

CleanupExpiredSessions ==
    /\ LET expired_sessions == {i \in DOMAIN sessions : check_timeout(sessions, i, now)}
           c == CleanupAll(sessions, session_data, expired_sessions)
       IN /\ sessions' = c.sessions
          /\ session_data' = c.session_data
          /\ outcome' = Outcome("cleanup_expired_sessions", Cardinality(expired_sessions), "count")
    /\ UNCHANGED <<now, issued>>
    /\ SessionFrame

NextSession ==
    \/ \E d \in ClockSteps : Tick(d)
    \/ CreateSession
    \/ \E i \in SessionIds : ValidateSession(i)
    \/ \E i \in SessionIds, k \in SessionKeys, v \in SessionValues : StoreData(i, k, v)
    \/ \E i \in SessionIds, k \in SessionKeys : GetData(i, k)
    \/ \E i \in SessionIds : GetSessionInfo(i)
    \/ \E i \in SessionIds, f \in Filenames : SetInputFilename(i, f)
    \/ \E i \in SessionIds : CleanupSession(i)
    \/ CleanupExpiredSessions

SpecSession == InitSession /\ [][NextSession]_vars

(***************************************************************************)
(* AggregationEngine.get_most_common next to _fast_mode, on one series.    *)
(***************************************************************************)
\* non_empty.mode(): the values of the highest count, in ascending order;
\* str(mode_result.iloc[0]) is the least of them.  '' when no cell is
\* non-null and non-blank.
get_most_common(series) ==
    LET non_empty == SelectSeq(series, NonBlank)
        values == {non_empty[i] : i \in 1..Len(non_empty)}
        modes == {v \in values : \A w \in values : Count(non_empty, w) <= Count(non_empty, v)}
    IN IF non_empty = <<>> THEN Empty
       ELSE CHOOSE v \in modes : \A w \in modes \ {v} : StrLess(v, w)

ModeCells == {NaN, Blank, CatX, CatY}

InitMode ==
    /\ mode_series \in SeqsUpTo(ModeCells, MaxSeriesLen)
    /\ most_common = <<>>
    /\ fast = <<>>
    /\ pc = "series"
    /\ df = <<>>
    /\ mapping = <<>>
    /\ aggregated = <<>>
    /\ sorted_accounts = <<>>
    /\ DetectorIdle
    /\ ProcessorIdle
    /\ ValidationIdle
    /\ SessionIdle
    /\ JobsIdle

\* result = engine.get_most_common(series)
GetMostCommon ==
    /\ pc = "series"
    /\ most_common' = <<get_most_common(mode_series)>>
    /\ pc' = "common"
    /\ UNCHANGED <<df, mapping, aggregated, sorted_accounts, detectorVars, processorVars,
                   validationVars, sessionVars, mode_series, fast, jobVars>>

\* result = engine._fast_mode(series)
FastMode ==
    /\ pc = "common"
    /\ \E v \in fast_mode(mode_series) : fast' = <<v>>
    /\ pc' = "both"
    /\ UNCHANGED <<df, mapping, aggregated, sorted_accounts, detectorVars, processorVars,
                   validationVars, sessionVars, mode_series, most_common, jobVars>>

NextMode == GetMostCommon \/ FastMode

SpecMode == InitMode /\ [][NextMode]_vars

(***************************************************************************)
(* Two datasets served by the cached service instances (get_services).     *)
(* Each goes through detect_columns, clean_dataframe, aggregate_by_account *)
(* and sort_results; the calls on one dataset and the calls on the other   *)
(* are taken in any order.  A job holds the arguments of its calls as      *)
(* objects (headers, df, mapping), the arguments as they were handed over  *)
(* (given_headers, given_df), and the value each call returned.            *)
(***************************************************************************)
Datasets == {1, 2}

\* One iteration of detect_columns' loop on its locals.
DetectStep(st, h) ==
    LET m == BestMatchOf(h)
        unique_types == UniqueTypes(m.all_matches)
    IN IF m.best_match = NoType THEN st
       ELSE LET ambiguous == IF IsAmbiguous(unique_types)
                             THEN Put(st.ambiguous_mappings, h, unique_types)
                             ELSE st.ambiguous_mappings
            IN IF m.best_match \in DOMAIN st.assigned_types
                  /\ ~Replaces(m.best_score, st.confidence_scores[m.best_match])
               THEN [st EXCEPT !.ambiguous_mappings = ambiguous]
               ELSE [detected |-> SetAttr(st.detected, m.best_match, h),
                     assigned_types |-> Put(st.assigned_types, m.best_match, h),
                     confidence_scores |-> Put(st.confidence_scores, m.best_match, m.best_score),
                     ambiguous_mappings |-> ambiguous]

RECURSIVE DetectFrom(_, _, _)
DetectFrom(hs, i, st) ==
    IF i > Len(hs) THEN st ELSE DetectFrom(hs, i + 1, DetectStep(st, hs[i]))

\* detect_columns(headers): the mapping returned, with its confidence_scores
\* and ambiguous_mappings
detect_columns(hs) ==
    LET st == DetectFrom(hs, 1, [detected |-> EmptyMapping,
                                 assigned_types |-> <<>>,
                                 confidence_scores |-> <<>>,
                                 ambiguous_mappings |-> <<>>])
    IN [detected |-> st.detected,
        confidence_scores |-> st.confidence_scores,
        ambiguous_mappings |-> st.ambiguous_mappings]

\* The caller's frame is cleaned in place.
clean_dataframe_argument_InPlace(frame, m) == clean_dataframe(frame, m)

\* The caller's frame after clean_dataframe(df, mapping): `df = df.copy()`
\* comes first, and every later step works on the copy.
clean_dataframe_argument(frame, m) == frame

JobHeaders ==
    { << <<"A", "m", "o", "u", "n", "t", "s">>, <<"A", "m", "o", "u", "n", "t">> >>,
      << <<"a", "c", "c", " ", "n", "o">>, <<"R", "e", "m", "a", "r", "k", "s">> >> }

JobRows ==
    [Account : {<<"A", "1">>, <<" ", "A", "2", " ">>},
     Amount : {<<"1", ",", "5", "0", "0">>},
     Disputed : {<<700>>},
     Ack : {NaN},
     Cat : {<<" ", "X">>}]

JobMapping ==
    MakeMapping("Account", "Amount", "Disputed", NoCol,
                [f \in DOMAIN NoModes |-> IF f = "bank_name" THEN "Cat" ELSE NoCol])

NewJob(hs, frame) ==
    [pc |-> "uploaded",
     headers |-> hs, given_headers |-> hs,
     df |-> frame, given_df |-> frame,
     mapping |-> JobMapping,
     detected |-> <<>>,
     cleaned |-> <<>>,
     aggregated |-> <<>>,
     sorted_accounts |-> <<>>]

InitJobs ==
    /\ jobs \in [Datasets -> {NewJob(hs, frame) :
                                hs \in JobHeaders, frame \in SeqsUpTo(JobRows, MaxJobRows)}]
    /\ lexicon = COLUMN_VARIANTS
    /\ pc = "serving"
    /\ df = <<>>
    /\ mapping = <<>>
    /\ aggregated = <<>>
    /\ sorted_accounts = <<>>
    /\ DetectorIdle
    /\ ProcessorIdle
    /\ ValidationIdle
    /\ SessionIdle
    /\ ModeIdle

JobFrame ==
    UNCHANGED <<df, mapping, pc, aggregated, sorted_accounts, detectorVars, processorVars,
                validationVars, sessionVars, modeVars>>

\* mapping = column_detector.detect_columns(headers): COLUMN_VARIANTS is read
DetectJob(d) ==
    /\ jobs[d].pc = "uploaded"
    /\ jobs' = [jobs EXCEPT ![d].detected = detect_columns(jobs[d].headers),
                            ![d].pc = "detected"]
    /\ UNCHANGED lexicon
    /\ JobFrame

\* cleaned_df = data_processor.clean_dataframe(df, mapping)
CleanJob(d) ==
    /\ jobs[d].pc = "detected"
    /\ jobs' = [jobs EXCEPT ![d].cleaned = clean_dataframe(jobs[d].df, jobs[d].mapping),
                            ![d].df = clean_dataframe_argument(jobs[d].df, jobs[d].mapping),
                            ![d].pc = "cleaned"]
    /\ UNCHANGED lexicon
    /\ JobFrame

\* aggregated = aggregation_engine.aggregate_by_account(cleaned_df, mapping):
\* `df = df[...]` binds the local name to a new frame
AggregateJob(d) ==
    /\ jobs[d].pc = "cleaned"
    /\ \E accounts \in aggregate_by_account(jobs[d].cleaned, jobs[d].mapping) :
          jobs' = [jobs EXCEPT ![d].aggregated = accounts, ![d].pc = "aggregated"]
    /\ UNCHANGED lexicon
    /\ JobFrame

\* sorted_accounts = aggregation_engine.sort_results(aggregated): sorted()
\* returns a new list
SortJob(d) ==
    /\ jobs[d].pc = "aggregated"
    /\ jobs' = [jobs EXCEPT ![d].sorted_accounts = sort_results(jobs[d].aggregated),
                            ![d].pc = "sorted"]
    /\ UNCHANGED lexicon
    /\ JobFrame

NextJobs ==
    \E d \in Datasets : DetectJob(d) \/ CleanJob(d) \/ AggregateJob(d) \/ SortJob(d)

SpecJobs == InitJobs /\ [][NextJobs]_vars

(***************************************************************************)
(* Vocabulary of the properties, stated on the input dataframe itself.     *)
(***************************************************************************)
AccountCol == mapping.bank_account_number

\* a null cell, or one with nothing but spaces in it
NoValue(cell) == cell = NaN \/ \A i \in 1..Len(cell) : cell[i] = " "

\* the indices of the input rows that carry account number `acct`
RowsOf(acct) == {i \in 1..Len(df) : df[i][AccountCol] = acct}

\* the distinct non-null, non-blank account numbers of the input
DistinctAccounts == {df[i][AccountCol] : i \in {j \in 1..Len(df) : ~NoValue(df[j][AccountCol])}}

\* the cells of column col in the rows of account `acct`, in row order
CellsOf(acct, col) ==
    LET Pick(i) == IF df[i][AccountCol] = acct THEN <<df[i][col]>> ELSE <<>>
        F[i \in 0..Len(df)] == IF i = 0 THEN <<>> ELSE F[i - 1] \o Pick(i)
    IN F[Len(df)]

RECURSIVE SumOver(_, _)
SumOver(rows, col) ==
    IF rows = {} THEN 0
    ELSE LET i == CHOOSE j \in rows : TRUE
             v == IF df[i][col] = NoAmount THEN 0 ELSE df[i][col][1]
         IN v + SumOver(rows \ {i}, col)

Aggregated == pc \in {"aggregated", "sorted"}

\* the input without the rows that carry no account number
WithAccount(frame) == SelectSeq(frame, LAMBDA row : ~NoValue(row[AccountCol]))

\* the non-null, non-blank cells, each stripped, in row order
StrippedValues(cells) ==
    LET One(c) == IF c = NaN \/ Strip(c) = <<>> THEN <<>> ELSE <<Strip(c)>>
        F[i \in 0..Len(cells)] == IF i = 0 THEN <<>> ELSE F[i - 1] \o One(cells[i])
    IN F[Len(cells)]

\* how often v occurs in cells
Occurrences(cells, v) == Cardinality({i \in 1..Len(cells) : cells[i] = v})

\* the non-null, non-blank values of cells
Candidates(cells) == {c \in Range(cells) : ~NoValue(c)}

\* x occurs more often in cells than any other non-null, non-blank value
StrictMode(cells, x) ==
    /\ x \in Candidates(cells)
    /\ \A w \in Candidates(cells) \ {x} : Occurrences(cells, w) < Occurrences(cells, x)

\* the score formula in hundredths: 40 * min(n, 100) is a whole number of
\* hundredths, 0.6 * min(a / 10,000,000, 1) * 100 is 6 * min(a, 10,000,000) / 10,000
FormulaScore(n, a) ==
    40 * (IF n < 100 THEN n ELSE 100)
      + RoundHalfEven(6 * (IF a < 10000000 THEN a ELSE 10000000), 10000)

\* t holds the elements of s, each as often as s does
\* Only lowercase ASCII letters, digits and single spaces, none at either end.
CleanHeader(s) ==
    /\ \A i \in 1..Len(s) : s[i] \in Range(LowerCase) \cup Range(Digits) \cup {" "}
    /\ \A i \in 1..Len(s) - 1 : ~(s[i] = " " /\ s[i + 1] = " ")
    /\ s # <<>> => s[1] # " " /\ s[Len(s)] # " "

IsPermutation(s, t) ==
    /\ Len(s) = Len(t)
    /\ \A r \in Range(s) \cup Range(t) : Occurrences(s, r) = Occurrences(t, r)

\* x and y tie on both sort keys
SameKeys(x, y) ==
    x.total_amount = y.total_amount /\ x.total_transactions = y.total_transactions

\* the accounts of every tie appear in t in the order they have in s
TiesKeepOrder(s, t) ==
    \A r \in Range(s) :
        SelectSeq(s, LAMBDA y : SameKeys(r, y)) = SelectSeq(t, LAMBDA y : SameKeys(r, y))

\* h is the string v up to letter case and surrounding whitespace.
IsSpelling(h, v) == Strip(Lower(h)) = Lower(v)

\* The column type detect_columns finds for header h, and its score.
BestType(h) == BestMatchOf(h).best_match

BestScore(h) == BestMatchOf(h).best_score

\* The positions of the input headers whose best match is f.
HeadersOf(f) == {i \in 1..Len(headers) : BestType(headers[i]) = f}

\* The first input header that attains the greatest score among those whose
\* best match is f; None when there is none.
FirstBest(f) ==
    IF HeadersOf(f) = {} THEN None
    ELSE headers[CHOOSE i \in HeadersOf(f) :
                    \A j \in HeadersOf(f) :
                        /\ ScoreAtLeast(BestScore(headers[i]), BestScore(headers[j]))
                        /\ j < i => ScoreGreater(BestScore(headers[i]), BestScore(headers[j]))]

\* Header h equals a variant of f up to case and surrounding whitespace, or
\* the greater of the edit-distance ratio and the token-sorted ratio of its
\* normalized form against a variant of f is at least 0.80.
Qualifies(h, f) ==
    \/ \E i \in 1..Len(VariantPairs) :
           VariantPairs[i].column_type = f /\ IsSpelling(h, VariantPairs[i].variant)
    \/ \E i \in 1..Len(VariantPairs) :
           /\ VariantPairs[i].column_type = f
           /\ ScoreAtLeast(MaxScore(ratio(normalize_header(h), VariantPairs[i].variant),
                                    token_sort_ratio(normalize_header(h), VariantPairs[i].variant)),
                           <<4, 5>>)

\* Qualifies, evaluated once for the headers of the pool.
QualifyingTypes == {<<h, {f \in CanonicalFields : Qualifies(h, f)}>> : h \in HeaderPool}

QualifiesFor(h, f) ==
    IF h \in HeaderPool THEN f \in (CHOOSE p \in QualifyingTypes : p[1] = h)[2]
    ELSE Qualifies(h, f)

\* The fields that hold a header.
AssignedFields == {f \in CanonicalFields : detected[f] # None}

\* Header h is a variant of some field up to case and surrounding whitespace.
HasExactVariant(h) == \E i \in 1..Len(VariantPairs) : IsSpelling(h, VariantPairs[i].variant)

\* The fields that cleared the threshold for header h.  The threshold is
\* applied in the fuzzy pass, which runs for a header without exact match.
ThresholdFields(h) ==
    IF HasExactVariant(h) THEN {} ELSE {f \in CanonicalFields : QualifiesFor(h, f)}

\* ThresholdFields, evaluated once for the headers of the pool.
ThresholdTable == {<<h, ThresholdFields(h)>> : h \in HeaderPool}

ClearedThreshold(h) ==
    IF h \in HeaderPool THEN (CHOOSE p \in ThresholdTable : p[1] = h)[2]
    ELSE ThresholdFields(h)

\* The headers detect_columns has gone through.
Processed == {headers[i] : i \in 1..idx}

\* The fields aggregation cannot do without.
RequiredFields == {"bank_account_number", "amount"}

\* The input after trimming and removal of currency markers and commas.
Cleaned(s) == Strip(Replace(RemoveSymbols(Strip(s), 1), <<",">>, <<>>))

\* The string reads as a number.
IsNumber(s) == float(s).kind \in {"float", "inf"}

Parenthesised(s) == Len(s) >= 2 /\ Head(s) = "(" /\ s[Len(s)] = ")"

Enclosed(s) == SubSeq(s, 2, Len(s) - 1)

NullAmounts == {None, <<>>, <<"n", "a", "n">>, <<"N", "o", "n", "e">>}

\* The float p is less than 0.01 away from the amount a.
WithinCent(p, a) ==
    /\ p.kind = "float"
    /\ ~p.neg
    /\ Len(p.int) <= 9
    /\ Len(p.frac) <= 3
    /\ ToInt(p.int) - a.units \in {-1, 0, 1}
    /\ LET padded == SubSeq(p.frac \o <<"0", "0", "0">>, 1, 3)
           d == (ToInt(p.int) - a.units) * 1000 + ToInt(padded) - a.thousandths
       IN d > -10 /\ d < 10

\* A string with its whitespace and dash characters removed, nothing else
\* changed.
Squeezed(s) == SelectSeq(s, LAMBDA ch : ~IsSpace(ch) /\ ch # "-")

\* A raw cell that is null, empty, whitespace/dash-only or a null literal.
NullLike(cell) ==
    \/ ~NotNa(cell)
    \/ Squeezed(cell) = <<>>
    \/ cell \in {<<"n", "a", "n">>, <<"N", "o", "n", "e">>}

\* A raw cell that holds something: not null and not blank.
HoldsValue(col, cell) ==
    IF col \in TextColumns THEN NotNa(cell) /\ Strip(cell) # <<>> ELSE cell # <<>>

\* The rows of the uploaded frame that cleaning keeps.
KeptRows == SelectSeq(raw_df, LAMBDA row : \E c \in DfColumns : HoldsValue(c, row[c]))

HasCleaned == pc \in {"loaded", "aggregated", "sorted"}

RECURSIVE TotalTransactions(_)
TotalTransactions(accounts) ==
    IF accounts = <<>> THEN 0
    ELSE Head(accounts).total_transactions + TotalTransactions(Tail(accounts))

\* The text columns of the cleaned frame: a parsed amount column holds floats.
CleanedTextColumns == TextColumns \ {mapping.amount, mapping.disputed_amount}

\* A raw text cell that is null, empty or whitespace-only.
NullOrBlank(cell) == ~NotNa(cell) \/ Strip(cell) = <<>>

\* A cell of the cleaned frame that holds something.
CleanedHoldsValue(col, cell) ==
    IF col \in CleanedTextColumns THEN NotNa(cell) /\ Strip(cell) # <<>> ELSE cell # <<>>

\* The output row is the input row: equal where the input holds a value
\* (in a text column, up to the cleaning of that cell).
SameRow(out, in) ==
    IF pc = "rows_removed"
    THEN \A c \in DfColumns : HoldsValue(c, in[c]) => out[c] = in[c]
    ELSE \A c \in CleanedTextColumns \ {mapping.bank_account_number} :
            (HoldsValue(c, in[c]) /\ Strip(in[c]) \notin {<<"n", "a", "n">>, <<"N", "o", "n", "e">>})
                => out[c] = Strip(in[c])

(***************************************************************************)
(* C1  Grouping uniqueness: when bank_account_number names a column of the *)
(* data, aggregate_by_account returns exactly one account per distinct     *)
(* non-null, non-blank account number of the input: the returned           *)
(* account_number values are exactly those numbers, none of them twice.    *)
(***************************************************************************)
C1_GroupingUniqueness ==
    (Aggregated /\ Mapped(AccountCol)) =>
        /\ {aggregated[i].account_number : i \in 1..Len(aggregated)} = DistinctAccounts
        /\ Len(aggregated) = Cardinality(DistinctAccounts)

C1_Witness ==
    /\ pc = "aggregated"
    /\ Mapped(AccountCol)
    /\ Len(df) = 3
    /\ df[1][AccountCol] = A2
    /\ NoValue(df[2][AccountCol])
    /\ df[3][AccountCol] = A2
    /\ Len(aggregated) = 1

(***************************************************************************)
(* C2  Sum aggregation: for every group, whenever amount names a column of *)
(* the dataset total_amount is the sum of that column over the rows of the *)
(* group, and whenever disputed_amount names a column                      *)
(* total_disputed_amount is the sum of that column over the same rows;     *)
(* a missing amount contributes 0.                                         *)
(***************************************************************************)
C2_SumAggregation ==
    (Aggregated /\ Mapped(AccountCol)) =>
        \A i \in 1..Len(aggregated) :
            LET acc == aggregated[i] IN
            /\ Mapped(mapping.amount) =>
                  acc.total_amount = SumOver(RowsOf(acc.account_number), mapping.amount)
            /\ Mapped(mapping.disputed_amount) =>
                  acc.total_disputed_amount =
                      SumOver(RowsOf(acc.account_number), mapping.disputed_amount)

C4_NullAccountsExcluded ==
    (Aggregated /\ Mapped(AccountCol)) =>
        /\ \A i \in 1..Len(aggregated) : ~NoValue(aggregated[i].account_number)
        /\ aggregated \in aggregate_by_account(WithAccount(df), mapping)

C4_Witness ==
    /\ pc = "aggregated"
    /\ Len(df) = 3
    /\ df[1][AccountCol] = Blank /\ df[1]["Cat"] = CatY
    /\ df[2][AccountCol] = A1 /\ df[2]["Cat"] = CatX
    /\ df[3][AccountCol] = Blank /\ df[3]["Cat"] = CatY
    /\ mapping.bank_name = "Cat"
    /\ Len(aggregated) = 1
    /\ aggregated[1].bank_name = CatX
    /\ aggregated[1].total_transactions = 1

(***************************************************************************)
(* C5  Acknowledgement consolidation: for every group,                     *)
(* acknowledgement_numbers is the ';'-join of the group's acknowledgement  *)
(* values, each stripped, null and empty values discarded, duplicates      *)
(* removed, in order of first occurrence; the empty string when the field  *)
(* is unmapped.                                                            *)
(***************************************************************************)
C5_AckConsolidation ==
    (Aggregated /\ Mapped(AccountCol)) =>
        \A i \in 1..Len(aggregated) :
            aggregated[i].acknowledgement_numbers =
                IF Mapped(mapping.acknowledgement_number)
                THEN Join(Unique(StrippedValues(
                         CellsOf(aggregated[i].account_number, mapping.acknowledgement_number))),
                         <<";">>)
                ELSE Empty

(***************************************************************************)
(* C6  Mode aggregation: for each of bank_name, ifsc_code, address,        *)
(* district and state that names a column, if within a group some value X  *)
(* occurs strictly more often than every other non-null, non-blank value   *)
(* of that column, the aggregated field equals X; null and blank cells     *)
(* neither count nor win.                                                  *)
(***************************************************************************)
C6_ModeAggregation ==
    (Aggregated /\ Mapped(AccountCol)) =>
        \A i \in 1..Len(aggregated) : \A f \in Range(ModeFields) :
            Mapped(mapping[f]) =>
                \A x \in Candidates(CellsOf(aggregated[i].account_number, mapping[f])) :
                    StrictMode(CellsOf(aggregated[i].account_number, mapping[f]), x)
                        => aggregated[i][f] = x

C6_Witness ==
    /\ pc = "aggregated"
    /\ mapping.address = "Cat"
    /\ Len(aggregated) = 1
    /\ CellsOf(aggregated[1].account_number, "Cat") = <<CatY, CatX, CatX>>
    /\ aggregated[1].address = CatX

(***************************************************************************)
(* C7  Risk score range: every account produced by aggregate_by_account    *)
(* has 0 <= risk_score <= 100 (0 .. 10000 in hundredths).                  *)
(***************************************************************************)
C7_RiskScoreRange ==
    Aggregated =>
        \A i \in 1..Len(aggregated) :
            0 <= aggregated[i].risk_score /\ aggregated[i].risk_score <= 10000

C9_SortOrder ==
    pc = "sorted" =>
        \A i \in 1..(Len(sorted_accounts) - 1) :
            \/ sorted_accounts[i].total_amount > sorted_accounts[i + 1].total_amount
            \/ /\ sorted_accounts[i].total_amount = sorted_accounts[i + 1].total_amount
               /\ sorted_accounts[i].total_transactions
                     >= sorted_accounts[i + 1].total_transactions

C9_Witness ==
    /\ pc = "sorted"
    /\ Len(aggregated) = 3
    /\ aggregated[1].total_amount = 1500 /\ aggregated[1].total_transactions = 1
    /\ aggregated[2].total_amount = 3000 /\ aggregated[2].total_transactions = 1
    /\ aggregated[3].total_amount = 1500 /\ aggregated[3].total_transactions = 2
    /\ sorted_accounts = <<aggregated[2], aggregated[3], aggregated[1]>>

(***************************************************************************)
(* C10  Sort stability: sort_results leaves its input list as it was and   *)
(* returns a permutation of it (same accounts, same multiplicity) in which *)
(* the accounts that tie on both total_amount and total_transactions keep  *)
(* the relative order they had in the input.                               *)
(***************************************************************************)
C10_SortStable ==
    [][(pc = "aggregated" /\ pc' = "sorted") =>
          /\ aggregated' = aggregated
          /\ IsPermutation(aggregated, sorted_accounts')
          /\ TiesKeepOrder(aggregated, sorted_accounts')]_vars

C10_Witness ==
    /\ pc = "sorted"
    /\ Len(aggregated) = 3
    /\ aggregated[1].account_number = A2
    /\ aggregated[2].account_number = A1
    /\ SameKeys(aggregated[1], aggregated[2])
    /\ aggregated[3].total_amount > aggregated[1].total_amount
    /\ sorted_accounts = <<aggregated[3], aggregated[1], aggregated[2]>>

(***************************************************************************)
(* C11  Exact variant recognition: when the only header is a variant of    *)
(* the lexicon of a field F, written in any letter case and with any       *)
(* whitespace around it, detect_columns assigns that header to F, assigns  *)
(* nothing to any other field and records the confidence 1.0 for F alone.  *)
(***************************************************************************)
C11_ExactVariantRecognition ==
    pc \in {"detected", "validated"} /\ Len(headers) = 1 =>
        \A i \in 1..Len(VariantPairs) :
            IsSpelling(headers[1], VariantPairs[i].variant) =>
                /\ detected = [f \in CanonicalFields |->
                                  IF f = VariantPairs[i].column_type THEN headers[1] ELSE None]
                /\ confidence_scores = [f \in {VariantPairs[i].column_type} |-> <<1, 1>>]

\* ' A/C NO\t' alone has been resolved to bank_account_number.
C11_Witness ==
    /\ pc = "detected"
    /\ headers = <<Upper(<<" ", "a", "/", "c", " ", "n", "o", "\t">>)>>
    /\ detected.bank_account_number = headers[1]
    /\ confidence_scores["bank_account_number"] = <<1, 1>>

(***************************************************************************)
(* C12  Override rule: while detect_columns goes through the headers in    *)
(* input order, the header of a field changes only to the header being     *)
(* processed, and only when the field was unassigned or the score of that  *)
(* header is strictly greater than the score recorded for the field; a     *)
(* field that has a header never loses it; and the mapping returned holds, *)
(* for every field, the first header in input order that attains the       *)
(* greatest score among the headers whose best match is that field.        *)
(***************************************************************************)
C12_OverrideRule ==
    [][/\ \A f \in CanonicalFields :
              /\ detected[f] # None => detected'[f] # None
              /\ detected'[f] # detected[f] =>
                     /\ detected'[f] = headers[idx + 1]
                     /\ detected[f] # None =>
                            ScoreGreater(BestScore(headers[idx + 1]), confidence_scores[f])
       /\ pc' = "detected" => \A f \in CanonicalFields : detected'[f] = FirstBest(f)]_vars

\* 'Amounts' (0.92) was replaced by 'Amount' (1.0), which 'amount ' (1.0) did
\* not replace.
C12_Witness ==
    /\ pc = "detected"
    /\ headers = << <<"A", "m", "o", "u", "n", "t", "s">>,
                    <<"A", "m", "o", "u", "n", "t">>,
                    <<"a", "m", "o", "u", "n", "t", " ">> >>
    /\ detected.amount = headers[2]

(***************************************************************************)
(* C13  The mapping is one-to-one: whatever the header sequence, repeated  *)
(* and near-duplicate headers included, no header is assigned to two       *)
(* fields, and the header a field holds is one of the input headers,       *)
(* character for character.                                                *)
(***************************************************************************)
C13_MappingOneToOne ==
    pc \in {"detecting", "detected", "validated"} =>
        \A f \in CanonicalFields :
            detected[f] # None =>
                /\ detected[f] \in Range(headers)
                /\ \A g \in CanonicalFields \ {f} : detected[g] # detected[f]

\* 'Amount' twice and then 'amount ': amount holds the first of them, no
\* other field holds anything.
C13_Witness ==
    /\ pc = "detected"
    /\ headers = << <<"A", "m", "o", "u", "n", "t">>,
                    <<"A", "m", "o", "u", "n", "t">>,
                    <<"a", "m", "o", "u", "n", "t", " ">> >>
    /\ detected = [EmptyMapping EXCEPT !.amount = headers[1]]

(***************************************************************************)
(* C14  Threshold: a field holds a header only if the header equals one of *)
(* the field's variants (case-insensitive, trimmed) or its fuzzy score,    *)
(* the greater of the edit-distance ratio and the token-sorted ratio and   *)
(* never the substring ratio, against a variant of the field is at least   *)
(* 0.80; a header with neither is in no field, and confidence entries      *)
(* exist for the fields that hold a header and for no other.               *)
(***************************************************************************)
C14_Threshold ==
    pc \in {"detecting", "detected", "validated"} =>
        /\ \A f \in AssignedFields : QualifiesFor(detected[f], f)
        /\ DOMAIN confidence_scores = AssignedFields

\* 'Amount Paid' contains the variant 'amount' but scores 0.71 and stays
\* out; 'IFSC12' scores exactly 0.80 against 'ifsc' and is assigned.
C14_Witness ==
    /\ pc = "detected"
    /\ headers = << <<"A", "m", "o", "u", "n", "t", " ", "P", "a", "i", "d">>,
                    <<"I", "F", "S", "C", "1", "2">> >>
    /\ detected = [EmptyMapping EXCEPT !.ifsc_code = headers[2]]
    /\ confidence_scores = [f \in {"ifsc_code"} |-> <<4, 5>>]

(***************************************************************************)
(* C15  Ambiguity is a warning, never a refusal: ambiguous_mappings holds  *)
(* exactly the processed headers for which more than one field cleared the *)
(* threshold, each with all those fields; the best-scoring field of such a *)
(* header is assigned all the same; and the loop can always go on to its   *)
(* return.                                                                 *)
(***************************************************************************)
C15_AmbiguityIsWarning ==
    pc \in {"detecting", "detected", "validated"} =>
        /\ DOMAIN ambiguous_mappings = {h \in Processed : Cardinality(ClearedThreshold(h)) > 1}
        /\ \A h \in DOMAIN ambiguous_mappings :
               /\ ambiguous_mappings[h] = ClearedThreshold(h)
               /\ BestType(h) \in ambiguous_mappings[h]
               /\ detected[BestType(h)] # None
        /\ pc = "detecting" => ENABLED (DetectHeader \/ ReturnMapping)

\* 'acc no' is close to 'ac no' (bank_account_number, 0.91) and to 'ack no'
\* (acknowledgement_number, 0.83): it is recorded and assigned.
C15_Witness ==
    /\ pc = "detected"
    /\ headers = << <<"a", "c", "k", " ", "n", "o">>, <<"a", "c", "c", " ", "n", "o">> >>
    /\ ambiguous_mappings =
           [h \in {headers[2]} |-> {"acknowledgement_number", "bank_account_number"}]
    /\ detected.bank_account_number = headers[2]
    /\ detected.acknowledgement_number = headers[1]

(***************************************************************************)
(* C16  Header normalization is idempotent: normalizing the result of      *)
(* normalize_header again gives the same string; and the result holds only *)
(* lowercase ASCII letters, digits and single spaces, with no leading or   *)
(* trailing space.                                                         *)
(***************************************************************************)
C16_NormalizeIdempotent ==
    /\ pc \in {"normalized", "renormalized"} => CleanHeader(normalized[1])
    /\ pc = "renormalized" => normalized[2] = normalized[1]

\* A header with a capital, a separator and a whitespace run has been
\* normalized twice.
C16_Witness ==
    /\ pc = "renormalized"
    /\ header = <<"A", "_", "\t", "c">>
    /\ normalized[1] = <<"a", " ", "c">>

(***************************************************************************)
(* C17  Required-field check: validate_required_columns returns exactly    *)
(* the required fields (bank_account_number, amount) that hold no header,  *)
(* each once, the empty list when both are assigned; the check can always  *)
(* be made on what detect_columns returns, which it returns whether or not *)
(* a required field is missing.                                            *)
(***************************************************************************)
C17_RequiredFieldCheck ==
    /\ pc = "validated" =>
           /\ Range(missing) = {f \in RequiredFields : detected[f] = None}
           /\ Len(missing) = Cardinality(Range(missing))
    /\ pc = "detected" => ENABLED ValidateRequired

\* Of 'Remarks' and 'Amount' only the amount is resolved; the account number
\* is reported missing.
C17_Witness ==
    /\ pc = "validated"
    /\ headers = << <<"R", "e", "m", "a", "r", "k", "s">>, <<"A", "m", "o", "u", "n", "t">> >>
    /\ detected.bank_account_number = None
    /\ missing = <<"bank_account_number">>

(***************************************************************************)
(* C18: parse_amount is total: it never raises, it returns 0.0 for null,   *)
(* empty, "nan" and "None" input and for every input that, after trimming  *)
(* and removal of currency markers and commas, is not a number, and a      *)
(* number wrapped in parentheses is returned as its negative.              *)
(***************************************************************************)
C18_ParseAmountTotal ==
    pc = "parsed" =>
        LET c == Cleaned(amount_str)
        IN /\ parsed[1] # ValueError
           /\ amount_str \in NullAmounts => parsed[1] = Zero
           /\ (~Parenthesised(c) /\ ~IsNumber(c)) => parsed[1] = Zero
           /\ (Parenthesised(c) /\ IsNumeral(Enclosed(c)))
                  => parsed[1] = NumeralValue(TRUE, Enclosed(c))

(***************************************************************************)
(* C19: an amount in [0.01, 1e8] formatted to 2 decimals, with or without  *)
(* thousands commas, after any supported currency marker or none, parses   *)
(* to a float less than 0.01 away from the amount.                         *)
(***************************************************************************)
C19_AmountRoundTrip ==
    pc = "parsed" =>
        \A e \in Formatted : e[1] = amount_str => WithinCent(parsed[1], e[2])

C19_Witness ==
    /\ pc = "parsed"
    /\ amount_str = <<"R", "s", ".", "1", ",", "2", "3", "4", ",", "5", "6", "7", ".", "5", "6">>
    /\ parsed = <<Float(FALSE, <<"1", "2", "3", "4", "5", "6", "7">>, <<"5", "6">>)>>

(***************************************************************************)
(* C20: after clean_dataframe with bank_account_number mapped, the account *)
(* of every kept row is the raw value with its whitespace and dashes       *)
(* removed and nothing else changed, or a null; it is a null whenever the  *)
(* raw cell was null, empty, whitespace/dash-only or a null literal, and   *)
(* the aggregation that follows counts none of those rows.                 *)
(***************************************************************************)
C20_AccountCleaning ==
    (HasCleaned /\ raw_df # <<>> /\ Mapped(mapping.bank_account_number)) =>
        LET col == mapping.bank_account_number
        IN /\ Len(df) = Len(KeptRows)
           /\ \A i \in 1..Len(df) :
                /\ \/ ~NotNa(df[i][col])
                   \/ NotNa(KeptRows[i][col]) /\ df[i][col] = Squeezed(KeptRows[i][col])
                /\ NullLike(KeptRows[i][col]) => ~NotNa(df[i][col])
           /\ pc \in {"aggregated", "sorted"} =>
                TotalTransactions(aggregated)
                    = Cardinality({i \in 1..Len(KeptRows) : ~NullLike(KeptRows[i][col])})

(***************************************************************************)
(* C21: after clean_dataframe every non-null cell of every text column has *)
(* no leading or trailing whitespace, no text cell is "nan", "None" or the *)
(* empty string, and a cell that was null, empty or whitespace-only in the *)
(* input is a null in the output.                                          *)
(***************************************************************************)
C21_TextCleaning ==
    (HasCleaned /\ raw_df # <<>>) =>
        /\ Len(df) = Len(KeptRows)
        /\ \A i \in 1..Len(df) : \A c \in CleanedTextColumns :
             /\ NotNa(df[i][c]) => Strip(df[i][c]) = df[i][c]
             /\ df[i][c] \notin {<<"n", "a", "n">>, <<"N", "o", "n", "e">>, <<>>}
             /\ NullOrBlank(KeptRows[i][c]) => ~NotNa(df[i][c])

(***************************************************************************)
(* C22: the output of remove_empty_rows, and of clean_dataframe, has no    *)
(* row in which every cell is null or blank, and has every other input row *)
(* once, in the original relative order.                                   *)
(***************************************************************************)
C22_EmptyRowRemoval ==
    (pc # "uploaded" /\ raw_df # <<>>) =>
        /\ Len(df) = Len(KeptRows)
        /\ \A i \in 1..Len(df) : SameRow(df[i], KeptRows[i])
        /\ \A i \in 1..Len(df) :
             \E c \in DfColumns :
                IF pc = "rows_removed" THEN HoldsValue(c, df[i][c])
                ELSE CleanedHoldsValue(c, df[i][c])

(***************************************************************************)
(* C23  Critical issues stop the pipeline, row-level issues do not.  In    *)
(* the flow clean -> validate -> aggregate -> sort, aggregation has run    *)
(* and results are stored only after validation returned is_valid.  If     *)
(* bank_account_number or amount is unmapped or absent from the dataset,   *)
(* validation is invalid with a critical error, the flow stops before      *)
(* aggregation and nothing is stored.  With both columns present the flow  *)
(* never stops, whatever the rows hold: unparseable amounts, missing       *)
(* categories and missing acknowledgement numbers included.                *)
(***************************************************************************)
RequiredPresent == Mapped(mapping.bank_account_number) /\ Mapped(mapping.amount)

AggregationRan ==
    \/ pc \in {"aggregated", "sorted", "stored"}
    \/ aggregated # <<>>
    \/ sorted_accounts # <<>>
    \/ session_state # <<>>

ProcessInvariant ==
    /\ AggregationRan =>
         validation_result # <<>> /\ validation_result[1].is_valid
    /\ ~RequiredPresent =>
         /\ ~AggregationRan
         /\ pc # "loaded"
         /\ validation_result # <<>> =>
              /\ ~validation_result[1].is_valid
              /\ validation_result[1].critical_errors # <<>>
              /\ pc \in {"stopped", "checked"}
    /\ RequiredPresent =>
         /\ pc # "stopped"
         /\ pc = "stored" => session_state # <<>>

C23_CriticalStopsPipeline ==
    /\ []ProcessInvariant
    /\ [](pc = "cleaned" /\ ~RequiredPresent => <>(pc = "stopped"))
    /\ [](pc = "cleaned" /\ RequiredPresent => <>(pc = "stored"))

\* The amount is mapped to a header the dataset does not have: the flow has
\* stopped after validation, with rows to process.
C23_Witness ==
    /\ pc = "stopped"
    /\ raw_df # <<>>
    /\ mapping.amount = AbsentCol
    /\ validation_result[1].critical_errors = <<"NO_AMOUNT_COLUMN">>

(***************************************************************************)
(* C24  Critical data flagging.  When both required columns are mapped,    *)
(* validate_dataframe flags every row whose account number or amount is    *)
(* missing: flagged_rows has at least as many entries as there are rows    *)
(* with a missing account number plus rows with a missing amount.          *)
(***************************************************************************)
Validated == IF pc = "checked" THEN raw_df ELSE df

MissingCount(frame, col) ==
    Cardinality({i \in 1..Len(frame) : MissingValue(col, frame[i][col])})

C24_CriticalDataFlagging ==
    (validation_result # <<>> /\ RequiredPresent) =>
        Len(validation_result[1].flagged_rows) >=
            MissingCount(Validated, mapping.bank_account_number)
            + MissingCount(Validated, mapping.amount)

(***************************************************************************)
(* C25  Session expiry.  After any sequence of calls a session id is in    *)
(* the session table iff it is in the data store.  A session inactive for  *)
(* more than 30 minutes is rejected on its next access (validate_session   *)
(* returns False) and is removed from both; after that store_data,         *)
(* get_data and set_input_filename on the id raise ValueError, and the id  *)
(* never becomes valid again.                                              *)
(***************************************************************************)
Expired(session_id) ==
    /\ session_id \in DOMAIN sessions
    /\ now - sessions[session_id].last_activity > 30

Gone(session_id) == session_id \in issued /\ session_id \notin DOMAIN sessions

Raising(session_id) ==
    \/ \E k \in SessionKeys, v \in SessionValues : StoreData(session_id, k, v)
    \/ \E k \in SessionKeys : GetData(session_id, k)
    \/ \E f \in Filenames : SetInputFilename(session_id, f)

Access(session_id) ==
    ValidateSession(session_id) \/ GetSessionInfo(session_id) \/ Raising(session_id)

SessionStep ==
    \A session_id \in SessionIds :
        /\ (Expired(session_id) /\ Access(session_id)) =>
              /\ session_id \notin DOMAIN sessions'
              /\ session_id \notin DOMAIN session_data'
              /\ outcome'.result \in {"False", "ValueError", "None"}
        /\ ((Expired(session_id) \/ Gone(session_id)) /\ ValidateSession(session_id)) =>
              outcome'.result = "False"
        /\ ((Expired(session_id) \/ Gone(session_id)) /\ Raising(session_id)) =>
              outcome'.result = "ValueError"
        /\ Gone(session_id) => session_id \notin DOMAIN sessions'

C25_SessionExpiry ==
    /\ [](DOMAIN sessions = DOMAIN session_data)
    /\ [][SessionStep]_vars

\* Session 1 was left alone for 31 minutes and store_data on it has raised;
\* session 2, created since, is the only one in either dict.
C25_Witness ==
    /\ outcome = Outcome("store_data", 1, "ValueError")
    /\ now = 31
    /\ 1 \in issued
    /\ DOMAIN sessions = {2}
    /\ DOMAIN session_data = {2}

(***************************************************************************)
(* C26  Mode tie-break: when several non-null, non-blank values of a       *)
(* categorical field occur equally often within a group and more often     *)
(* than every other, the aggregated field is the one of them that comes    *)
(* first in row order.                                                     *)
(***************************************************************************)
\* the values of the highest count among the candidates of cells
Tied(cells) ==
    {x \in Candidates(cells) :
        \A w \in Candidates(cells) : Occurrences(cells, w) <= Occurrences(cells, x)}

\* the one of the tied values met first
FirstTied(cells) ==
    cells[CHOOSE j \in 1..Len(cells) :
            /\ cells[j] \in Tied(cells)
            /\ \A k \in 1..(j - 1) : cells[k] \notin Tied(cells)]

AmountColumns == {c \in {mapping.amount, mapping.disputed_amount} : Mapped(c)}

C27_VectorizedRefinesScalar ==
    (HasCleaned /\ Len(df) = Len(KeptRows)) =>
        \A i \in 1..Len(df) : \A c \in AmountColumns :
            /\ df[i][c] = parse_amount_cell(c, KeptRows[i][c])
            /\ IsNa(c, KeptRows[i][c]) => df[i][c] = <<0>>

(***************************************************************************)
(* C28  The two mode implementations agree: for every series,              *)
(* get_most_common(series) and _fast_mode(series) return the same string,  *)
(* the empty string when no value is non-null and non-blank, ties for the  *)
(* highest frequency included.                                             *)
(***************************************************************************)
C28_ModeAgreement ==
    pc = "both" =>
        /\ most_common = fast
        /\ (\A i \in 1..Len(mode_series) : ~NonBlank(mode_series[i])) => fast = <<Empty>>

(***************************************************************************)
(* C29  Confidence bookkeeping: after every header processed by            *)
(* detect_columns, and in the mapping it returns, confidence_scores has an *)
(* entry for exactly the canonical fields that have a header; each entry   *)
(* is the score of the header the field holds, lies in [0.80, 1.0], and    *)
(* never decreases as further headers are processed.                       *)
(***************************************************************************)
SameScore(x, y) == x[1] * y[2] = y[1] * x[2]

ConfidenceInvariant ==
    /\ DOMAIN confidence_scores = {f \in CanonicalFields : detected[f] # None}
    /\ \A f \in DOMAIN confidence_scores :
         /\ BestType(detected[f]) = f
         /\ SameScore(confidence_scores[f], BestScore(detected[f]))
         /\ confidence_scores[f][1] * 100 >= 80 * confidence_scores[f][2]
         /\ confidence_scores[f][1] <= confidence_scores[f][2]

ConfidenceStep ==
    \A f \in DOMAIN confidence_scores :
        /\ f \in DOMAIN confidence_scores'
        /\ confidence_scores'[f][1] * confidence_scores[f][2]
              >= confidence_scores[f][1] * confidence_scores'[f][2]

C29_ConfidenceBookkeeping == []ConfidenceInvariant /\ [][ConfidenceStep]_vars

\* 'Amounts' (0.92) gave way to 'Amount' (1.0): the entry of amount went up
\* with the header, next to the entry of 'acc no'.
C29_Witness ==
    /\ pc = "detected"
    /\ headers = << <<"A", "m", "o", "u", "n", "t", "s">>,
                    <<"a", "c", "c", " ", "n", "o">>,
                    <<"A", "m", "o", "u", "n", "t">> >>
    /\ detected.amount = headers[3]
    /\ DOMAIN confidence_scores = {"amount", BestType(headers[2])}
    /\ SameScore(confidence_scores["amount"], <<1, 1>>)

(***************************************************************************)
(* C30  Statelessness under interleaving: detect_columns, clean_dataframe, *)
(* aggregate_by_account and sort_results keep no state between calls and   *)
(* modify neither their arguments nor the lexicon, so what each call on a  *)
(* dataset returns is what it returns when the dataset is processed alone, *)
(* in whatever order the calls on the two datasets are taken.              *)
(***************************************************************************)
Past(d, stages) == jobs[d].pc \in stages

JobsInvariant ==
    /\ lexicon = COLUMN_VARIANTS
    /\ \A d \in Datasets :
         /\ jobs[d].headers = jobs[d].given_headers
         /\ jobs[d].df = jobs[d].given_df
         /\ Past(d, {"detected", "cleaned", "aggregated", "sorted"}) =>
               jobs[d].detected = detect_columns(jobs[d].given_headers)
         /\ Past(d, {"cleaned", "aggregated", "sorted"}) =>
               jobs[d].cleaned = clean_dataframe(jobs[d].given_df, jobs[d].mapping)
         /\ Past(d, {"aggregated", "sorted"}) =>
               jobs[d].aggregated \in
                   aggregate_by_account(clean_dataframe(jobs[d].given_df, jobs[d].mapping),
                                        jobs[d].mapping)
         /\ Past(d, {"sorted"}) =>
               jobs[d].sorted_accounts = sort_results(jobs[d].aggregated)

\* A call on one dataset leaves everything of the other as it was.
JobsStep ==
    \A d \in Datasets :
        jobs'[d] # jobs[d] => \A e \in Datasets \ {d} : jobs'[e] = jobs[e]

====
